---- MODULE Spec2Model ----
(***************************************************************************)
(* iTurtle-Smart-Fetcher: the download / diff / tag orchestration of       *)
(* internal/downloader and the metadata merge of metadata.go.              *)
(*                                                                         *)
(* Go strings are TLA+ strings; the byte at 1-based offset i of s is       *)
(* SubSeq(s, i, i).  Go ints are TLA+ integers (all values stay far below  *)
(* the 64-bit range within the bounds used here).                          *)
(***************************************************************************)
EXTENDS Integers, Sequences, FiniteSets, TLC

VARIABLES
    arg,        \* inputs of the pure function under check
    out,        \* its result
    called,     \* whether the function has been applied to arg
    fs,         \* the output directory: path -> content
    dirExists,  \* whether the output directory exists
    tempCovers, \* number of temporary cover files on disk
    pc,         \* position of Download: idle, fetch, cover, tag, done
    cfg,        \* the Config of the current run
    beforeSnap, \* Download's before: the snapshot taken before the downloader ran
    newFiles,   \* the sorted diff
    idx,        \* index i of the tagging loop
    coverSrc,   \* Download's coverSource: what prepareCover was given
    coverPath,  \* cover path handed to the tagger
    cleanup,    \* whether the deferred cleanup removes a temporary cover
    ret,        \* what Download returned: [files, err], err "" being nil
    calls,      \* the subprocess invocations of the current run, in order
    entry,      \* history: fs and dirExists when Download was entered
    fetched,    \* history: fs when the downloader returned
    deleted,    \* history: existing paths removed by os.Remove in this run
    ioFailed,   \* history: the directory operation that failed in this run
    coverOutcome, \* history: what happened in prepareCover, "" before it ran
    runNo,      \* history: the number of Download calls entered so far
    appeared,   \* history: <<path, run>>, the run during which path first existed
    taggedIn,   \* history: <<path, run>>, the runs that passed path to the tagger
    now,        \* the clock, in half seconds since the program started
    lastRequest, \* Client.lastRequest of each metadata-database client
    issued,     \* history: the outbound requests, [client, at], in order
    request,    \* the command line: mode, the configuration file, the flags
    stage,      \* position of main / runBatchMode: start, album, download, exit
    albumIdx,   \* runBatchMode's loop index i
    pending,    \* the Config built for the Download about to run
    failed,     \* runBatchMode's failed list
    exitErr,    \* what runBatchMode returned, or main's failure; "" is success
    handed      \* history: one entry per Download call, [album, cfg, lookup, err]

pureVars == <<arg, out, called>>

runVars == <<fs, dirExists, tempCovers, pc, cfg, beforeSnap, newFiles, idx, coverSrc,
             coverPath, cleanup, ret, calls, entry, fetched, deleted, ioFailed,
             coverOutcome, runNo, appeared, taggedIn>>

clientVars == <<now, lastRequest, issued>>

mainVars == <<request, stage, albumIdx, pending, failed, exitErr, handed>>

vars == <<arg, out, called, fs, dirExists, tempCovers, pc, cfg, beforeSnap, newFiles, idx,
          coverSrc, coverPath, cleanup, ret, calls, entry, fetched, deleted, ioFailed,
          coverOutcome, runNo, appeared, taggedIn, now, lastRequest, issued, request,
          stage, albumIdx, pending, failed, exitErr, handed>>

(***************************************************************************)
(* Bounds                                                                  *)
(***************************************************************************)
MaxPosition == 5        \* track positions and fallback positions: -1..MaxPosition
MaxPrefixLen == 2       \* length of the text put before the separator of a filename
MaxTracks == 2          \* number of tracks of a playlist
MaxClock == 4           \* the clock stops at this many half seconds
MaxRequests == 3        \* outbound requests followed per behaviour
MaxAlbums == 2          \* albums of a configuration file

(***************************************************************************)
(* Strings                                                                 *)
(***************************************************************************)
Char(s, i) == SubSeq(s, i, i)

MinOf(S) == CHOOSE x \in S : \A y \in S : x <= y

MaxOf(S) == CHOOSE x \in S : \A y \in S : x >= y

\* The byte value of a one-character string (Go compares strings bytewise).
Code(c) ==
    CASE c = " " -> 32 [] c = "+" -> 43 [] c = "-" -> 45 [] c = "." -> 46
      [] c = "/" -> 47 [] c = "0" -> 48 [] c = "1" -> 49 [] c = "2" -> 50
      [] c = "3" -> 51 [] c = "4" -> 52 [] c = "5" -> 53 [] c = "6" -> 54
      [] c = "7" -> 55 [] c = "8" -> 56 [] c = "9" -> 57 [] c = "M" -> 77
      [] c = "P" -> 80 [] c = "_" -> 95 [] c = "a" -> 97 [] c = "b" -> 98
      [] c = "c" -> 99 [] c = "d" -> 100 [] c = "e" -> 101 [] c = "g" -> 103
      [] c = "m" -> 109 [] c = "p" -> 112 [] c = "s" -> 115 [] c = "t" -> 116
      [] c = "x" -> 120

\* Go's a < b on strings.
StrLess(a, b) ==
    LET n == IF Len(a) < Len(b) THEN Len(a) ELSE Len(b)
        diff == {i \in 1..n : Char(a, i) # Char(b, i)}
    IN  IF diff = {} THEN Len(a) < Len(b)
        ELSE Code(Char(a, MinOf(diff))) < Code(Char(b, MinOf(diff)))

RECURSIVE SortStrings(_)
\* sort.Strings applied to the elements of S (distinct map keys).
SortStrings(S) ==
    IF S = {} THEN <<>>
    ELSE LET m == CHOOSE x \in S : \A y \in S \ {x} : StrLess(x, y)
         IN  <<m>> \o SortStrings(S \ {m})

IsDigit(c) == c \in {"0", "1", "2", "3", "4", "5", "6", "7", "8", "9"}

DigitVal(c) == Code(c) - Code("0")

DigitChar(d) == SubSeq("0123456789", d + 1, d + 1)

RECURSIVE IntToStr(_)
\* fmt.Sprintf("%d", n)
IntToStr(n) ==
    IF n < 0 THEN "-" \o IntToStr(-n)
    ELSE IF n < 10 THEN DigitChar(n)
    ELSE IntToStr(n \div 10) \o DigitChar(n % 10)

RECURSIVE ParseDecimal(_)
\* strconv.ParseInt(tok, 10, 64) on a token of decimal digits.
ParseDecimal(tok) ==
    IF tok = "" THEN 0
    ELSE 10 * ParseDecimal(SubSeq(tok, 1, Len(tok) - 1)) + DigitVal(Char(tok, Len(tok)))

\* fmt.Sscanf(s, "%d", &num): leading blanks are skipped, one sign is accepted,
\* then the longest run of [0-9_] is the token; the token must be non-empty and
\* parse in base 10 (an underscore does not).  Input left after the token is
\* not an error.
Sscanf(s) ==
    LET n == Len(s)
        nonBlank == {i \in 1..n : Char(s, i) # " "}
        start == IF nonBlank = {} THEN n + 1 ELSE MinOf(nonBlank)
        signed == start <= n /\ Char(s, start) \in {"+", "-"}
        first == IF signed THEN start + 1 ELSE start
        stops == {i \in first..n : ~(IsDigit(Char(s, i)) \/ Char(s, i) = "_")}
        last == IF stops = {} THEN n ELSE MinOf(stops) - 1
        tok == SubSeq(s, first, last)
        clean == \A i \in 1..Len(tok) : IsDigit(Char(tok, i))
        ok == tok # "" /\ clean
        mag == IF ok THEN ParseDecimal(tok) ELSE 0
    IN  [ok |-> ok,
         num |-> IF signed /\ Char(s, start) = "-" THEN 0 - mag ELSE mag]

\* filepath.Base on slash-separated paths.
Base(path) ==
    IF path = "" THEN "."
    ELSE LET keep == {i \in 1..Len(path) : Char(path, i) # "/"}
         IN  IF keep = {} THEN "/"
             ELSE LET p == SubSeq(path, 1, MaxOf(keep))
                      sl == {i \in 1..Len(p) : Char(p, i) = "/"}
                  IN  IF sl = {} THEN p ELSE SubSeq(p, MaxOf(sl) + 1, Len(p))

(***************************************************************************)
(* Track Index Extractor                                                   *)
(***************************************************************************)
\* Offsets (1-based) of a blank that is not the first byte and is followed
\* by "- " inside base.
SeparatorOffsets(base) ==
    {k \in 2..(Len(base) - 2) :
        Char(base, k) = " " /\ Char(base, k + 1) = "-" /\ Char(base, k + 2) = " "}

\* extractPlaylistIndex scanning the whole path instead of its base name.
extractPlaylistIndexWholePath(filename) ==
    LET seps == SeparatorOffsets(filename)
    IN  IF seps = {} THEN 0
        ELSE LET scan == Sscanf(SubSeq(filename, 1, MinOf(seps) - 1))
             IN  IF scan.ok THEN scan.num ELSE 0

extractPlaylistIndex(filename) ==
    LET base == Base(filename)
        seps == SeparatorOffsets(base)
    IN  IF seps = {} THEN 0
        ELSE LET scan == Sscanf(SubSeq(base, 1, MinOf(seps) - 1))
             IN  IF scan.ok THEN scan.num ELSE 0

(***************************************************************************)
(* Directory diff                                                          *)
(***************************************************************************)
\* diffFiles without the membership test on before.
diffFilesNoFilter(before, after) == SortStrings(after)

diffFiles(before, after) == SortStrings({path \in after : path \notin before})

(***************************************************************************)
(* Metadata Merge Engine                                                   *)
(***************************************************************************)
\* Metadata{} : the zero value of the tag record.
EmptyMetadata ==
    [Title |-> "", Artist |-> "", Album |-> "", AlbumArtist |-> "",
     Composer |-> "", Year |-> "", Genre |-> "", Track |-> "", Comment |-> ""]

\* TrackMetadata{} : the zero value of the per-track record.
EmptyTrack ==
    [Position |-> 0, Title |-> "", Artist |-> "", Composer |-> "", Comment |-> ""]

formatTrackNumber(track, total) ==
    IF total > 0 THEN IntToStr(track) \o "/" \o IntToStr(total)
    ELSE IntToStr(track)

\* trackNum ignoring the track's own position.
trackNumPositionOnly(track, position) == position

\* The track number MergeTrackMetadata formats: the track's own position when
\* positive, else the position handed in.
trackNum(track, position) ==
    IF track.Position > 0 THEN track.Position ELSE position

\* MergeTrackMetadata without the track-artist override.
MergeArtistFromAlbum(album, track, position) ==
    [Title       |-> IF track.Title # "" THEN track.Title ELSE "",
     Artist      |-> album.Artist,
     Album       |-> album.Title,
     AlbumArtist |-> IF album.AlbumArtist = "" THEN album.Artist ELSE album.AlbumArtist,
     Composer    |-> IF track.Composer # "" THEN track.Composer ELSE "",
     Year        |-> album.Year,
     Genre       |-> album.Genre,
     Track       |-> IF album.TotalTracks > 0
                        THEN formatTrackNumber(trackNum(track, position), album.TotalTracks)
                     ELSE IF trackNum(track, position) > 0
                        THEN formatTrackNumber(trackNum(track, position), 0)
                     ELSE "",
     Comment     |-> IF track.Comment # "" THEN track.Comment ELSE album.Comment]

\* MergeTrackMetadata without the track-comment override.
MergeCommentFromAlbum(album, track, position) ==
    [Title       |-> IF track.Title # "" THEN track.Title ELSE "",
     Artist      |-> IF track.Artist # "" THEN track.Artist ELSE album.Artist,
     Album       |-> album.Title,
     AlbumArtist |-> IF album.AlbumArtist = "" THEN album.Artist ELSE album.AlbumArtist,
     Composer    |-> IF track.Composer # "" THEN track.Composer ELSE "",
     Year        |-> album.Year,
     Genre       |-> album.Genre,
     Track       |-> IF album.TotalTracks > 0
                        THEN formatTrackNumber(trackNum(track, position), album.TotalTracks)
                     ELSE IF trackNum(track, position) > 0
                        THEN formatTrackNumber(trackNum(track, position), 0)
                     ELSE "",
     Comment     |-> album.Comment]

MergeTrackMetadata(album, track, position) ==
    [Title       |-> IF track.Title # "" THEN track.Title ELSE "",
     Artist      |-> IF track.Artist # "" THEN track.Artist ELSE album.Artist,
     Album       |-> album.Title,
     AlbumArtist |-> IF album.AlbumArtist = "" THEN album.Artist ELSE album.AlbumArtist,
     Composer    |-> IF track.Composer # "" THEN track.Composer ELSE "",
     Year        |-> album.Year,
     Genre       |-> album.Genre,
     Track       |-> IF album.TotalTracks > 0
                        THEN formatTrackNumber(trackNum(track, position), album.TotalTracks)
                     ELSE IF trackNum(track, position) > 0
                        THEN formatTrackNumber(trackNum(track, position), 0)
                     ELSE "",
     Comment     |-> IF track.Comment # "" THEN track.Comment ELSE album.Comment]

(***************************************************************************)
(* Inputs of the pure functions                                            *)
(***************************************************************************)
Positions == (0 - 1)..MaxPosition

TotalTrackCounts == {0 - 1, 0, 2, 10, 12}

MergeAlbums ==
    {[Title |-> t, Artist |-> a, AlbumArtist |-> aa, Year |-> yg[1], Genre |-> yg[2],
      Comment |-> c, TotalTracks |-> n, CoverURL |-> "", CoverPath |-> ""] :
        t \in {"", "Al"}, a \in {"", "Ar"}, aa \in {"", "AA"},
        yg \in {<<"", "Rock">>, <<"2024", "">>, <<"2024", "Rock">>},
        c \in {"", "ac"}, n \in TotalTrackCounts}

MergeTracks ==
    {[Position |-> p, Title |-> t, Artist |-> a, Composer |-> c, Comment |-> m] :
        p \in Positions, t \in {"", "Tt"}, a \in {"", "Ta"}, c \in {"", "Tc"},
        m \in {"", "tc"}}

\* Every string of length at most n over the bytes used in front of a separator.
RECURSIVE StringsUpTo(_)
StringsUpTo(n) ==
    IF n = 0 THEN {""}
    ELSE LET shorter == StringsUpTo(n - 1)
         IN  shorter \cup {s \o c : s \in shorter, c \in {"0", "1", "2", "a", "-", " ", "+", "_"}}

ExtractInputs ==
    {[filename |-> d \o p \o sep \o rest] :
        d \in {"", "d/", "1 - d/"},
        p \in StringsUpTo(MaxPrefixLen),
        sep \in {" - ", " -", "-", ""},
        rest \in {"s.mp3", "3 - s.mp3"}}

DiffNames == {"1 - a.mp3", "2 - b.mp3", "10 - c.mp3", "a.mp3", "a.mp", "d/3 - s.mp3"}

(***************************************************************************)
(* Files, snapshots and configurations of a Download run                   *)
(***************************************************************************)
LowerChar(c) == CASE c = "M" -> "m" [] c = "P" -> "p" [] OTHER -> c

RECURSIVE ToLower(_)
ToLower(s) ==
    IF s = "" THEN "" ELSE LowerChar(Char(s, 1)) \o ToLower(SubSeq(s, 2, Len(s)))

TrimSpace(s) ==
    LET keep == {i \in 1..Len(s) : Char(s, i) # " "}
    IN  IF keep = {} THEN "" ELSE SubSeq(s, MinOf(keep), MaxOf(keep))

HasPrefix(s, prefix) == Len(s) >= Len(prefix) /\ SubSeq(s, 1, Len(prefix)) = prefix

TrimPrefix(s, prefix) ==
    IF HasPrefix(s, prefix) THEN SubSeq(s, Len(prefix) + 1, Len(s)) ELSE s

\* filepath.Ext: the suffix of the last path element from its last dot on.
Ext(path) ==
    LET sl == {i \in 1..Len(path) : Char(path, i) = "/"}
        from == IF sl = {} THEN 1 ELSE MaxOf(sl) + 1
        dots == {i \in from..Len(path) : Char(path, i) = "."}
    IN  IF dots = {} THEN "" ELSE SubSeq(path, MaxOf(dots), Len(path))

\* strings.EqualFold on ASCII.
EqualFold(a, b) == ToLower(a) = ToLower(b)

\* snapshotFiles comparing the extension byte for byte.
snapshotFilesCaseSensitive(files, format) ==
    LET targetExt == ToLower("." \o TrimPrefix(format, "."))
    IN  {rel \in files :
            /\ ~(targetExt = "." /\ ~HasPrefix(format, "."))
            /\ Ext(Base(rel)) = targetExt}

\* snapshotFiles over the non-directory files found under dir, given as paths
\* relative to dir.
snapshotFiles(files, format) ==
    LET targetExt == ToLower("." \o TrimPrefix(format, "."))
    IN  {rel \in files :
            /\ ~(targetExt = "." /\ ~HasPrefix(format, "."))
            /\ EqualFold(Ext(Base(rel)), targetExt)}

\* The callback of snapshotFiles skips the directories that WalkDir visits.
regularFiles(entries) == {e.rel : e \in {x \in entries : ~x.isDir}}

\* snapshotFiles on a directory tree.  WalkDir hands the callback the entries
\* of the tree; when the walk fails (walkErr # "") it stops after the entries
\* in seen, and the map built so far is returned together with the error.
snapshotDir(tree, format, seen, walkErr) ==
    [files |-> snapshotFiles(regularFiles(IF walkErr = "" THEN tree ELSE seen),
                             format),
     err   |-> walkErr]

\* Download's normalisation of Config.AudioFormat.
audioFormat(c) ==
    LET format == ToLower(TrimSpace(c.AudioFormat))
    IN  IF format = "" THEN "mp3" ELSE format

\* url.Parse(value) succeeding with a non-empty scheme and host.
isURL(value) ==
    \E i \in 2..(Len(value) - 3) :
        /\ SubSeq(value, i, i + 2) = "://"
        /\ Char(value, i + 3) # "/"
        /\ \A j \in 1..(i - 1) : Char(value, j) \notin {"/", ":", " "}

\* The files yt-dlp may write into the output directory.
DownloadNames == {"1 - a.mp3", "2 - b.mp3", "a.mp3"}

TmpPath(filePath) == filePath \o ".tagged"

\* Every path of the output directory the model follows.
Paths == DownloadNames \cup {TmpPath(n) : n \in DownloadNames}

\* File contents: none (no such file), old (there before the first run),
\* audio (written by yt-dlp), tagged (a complete ffmpeg output), partial (what
\* a failed ffmpeg left behind).
Existing(files) == {path \in Paths : files[path] # "none"}

EmptyAlbum ==
    [Title |-> "", Artist |-> "", AlbumArtist |-> "", Year |-> "", Genre |-> "",
     Comment |-> "", TotalTracks |-> 0, CoverURL |-> "", CoverPath |-> ""]

\* Config.PlaylistMetadata == nil
NoPlaylist == [present |-> FALSE, AlbumInfo |-> EmptyAlbum, Tracks |-> <<>>]

\* The k-th track of a playlist, as ToDownloaderConfig and the MusicBrainz
\* converter build it: Position k.
PlaylistTrack(k) ==
    [Position |-> k, Title |-> "T" \o IntToStr(k),
     Artist |-> IF k = 2 THEN "Guest" ELSE "", Composer |-> "", Comment |-> ""]

PlaylistAlbum(n) ==
    [Title |-> "PAlbum", Artist |-> "PArtist", AlbumArtist |-> "", Year |-> "2008",
     Genre |-> "", Comment |-> "", TotalTracks |-> n, CoverURL |-> "", CoverPath |-> ""]

\* The cover URLs a playlist may carry: none, or the front cover found by the
\* Cover Art Archive lookup.  AlbumMetadata.CoverPath is assigned nowhere in
\* the program and stays empty.
PlaylistCoverURLs == {"", "http://m/f.jpg"}

Playlists ==
    {NoPlaylist} \cup
    {[present |-> TRUE, AlbumInfo |-> [PlaylistAlbum(n) EXCEPT !.CoverURL = u],
      Tracks |-> [k \in 1..n |-> PlaylistTrack(k)]] :
        n \in 0..MaxTracks, u \in PlaylistCoverURLs}

UniformMetadata ==
    [Title |-> "", Artist |-> "Tester", Album |-> "Album", AlbumArtist |-> "",
     Composer |-> "", Year |-> "2024", Genre |-> "", Track |-> "", Comment |-> ""]

Configs ==
    {[URL |-> u, Cover |-> c, AudioFormat |-> "mp3", Metadata |-> m,
      PlaylistMetadata |-> pm] :
        u \in {"u"}, c \in {"", "c.jpg", "http://h/c.jpg"},
        m \in {EmptyMetadata, UniformMetadata}, pm \in Playlists}
    \cup
    {[URL |-> u, Cover |-> "", AudioFormat |-> "mp3", Metadata |-> UniformMetadata,
      PlaylistMetadata |-> NoPlaylist] : u \in {"", " "}}

\* The tagging loop entered whatever the configuration holds.
hasMetadataAlways(c, cover) == TRUE

\* Lines 507-512 of Download: whether anything is to be embedded.
hasMetadata(c, cover) ==
    \/ c.Metadata.Title # "" \/ c.Metadata.Artist # "" \/ c.Metadata.Album # ""
    \/ c.Metadata.AlbumArtist # "" \/ c.Metadata.Composer # "" \/ c.Metadata.Year # ""
    \/ c.Metadata.Genre # "" \/ c.Metadata.Track # "" \/ c.Metadata.Comment # ""
    \/ cover # ""
    \/ c.PlaylistMetadata.present

\* coverSource taking Config.Cover first and the playlist's cover only when
\* Config.Cover is empty.
coverSourceConfigFirst(c) ==
    IF c.Cover # "" THEN c.Cover
    ELSE IF c.PlaylistMetadata.present THEN c.PlaylistMetadata.AlbumInfo.CoverURL
    ELSE ""

\* Lines 492-498 of Download: the cover source, playlist metadata first.
coverSource(c) ==
    IF c.PlaylistMetadata.present /\ c.PlaylistMetadata.AlbumInfo.CoverPath # ""
        THEN c.PlaylistMetadata.AlbumInfo.CoverPath
    ELSE IF c.PlaylistMetadata.present /\ c.PlaylistMetadata.AlbumInfo.CoverURL # ""
        THEN c.PlaylistMetadata.AlbumInfo.CoverURL
    ELSE c.Cover

\* trackIndexOf never looking at the filename.
trackIndexOfFileIndex(filename, fileIndex) == fileIndex + 1

\* getTrackMetadata, lines 720-724: the index taken from the filename, else
\* the 1-based file index.
trackIndexOf(filename, fileIndex) ==
    IF extractPlaylistIndex(filename) <= 0 THEN fileIndex + 1
    ELSE extractPlaylistIndex(filename)

\* selectTrack taking the track at the file's index, whatever its name.
selectTrackByFileIndex(tracks, filename, fileIndex) ==
    IF Len(tracks) > fileIndex THEN tracks[fileIndex + 1] ELSE EmptyTrack

\* getTrackMetadata, lines 727-732: the track record handed to the merge.
selectTrack(tracks, filename, fileIndex) ==
    LET trackIndex == trackIndexOf(filename, fileIndex)
    IN  IF trackIndex > 0 /\ trackIndex <= Len(tracks) THEN tracks[trackIndex]
        ELSE IF Len(tracks) > fileIndex THEN tracks[fileIndex + 1]
        ELSE EmptyTrack

getTrackMetadata(pm, filename, fileIndex) ==
    MergeTrackMetadata(pm.AlbumInfo, selectTrack(pm.Tracks, filename, fileIndex),
                       trackIndexOf(filename, fileIndex))

\* The tags of a file taking every non-empty field of Config.Metadata in
\* place of the playlist's.
fileMetadataOverlaid(c, file, fileIndex) ==
    IF c.PlaylistMetadata.present
      THEN LET track == getTrackMetadata(c.PlaylistMetadata, file, fileIndex)
           IN  [f \in DOMAIN track |->
                    IF c.Metadata[f] # "" THEN c.Metadata[f] ELSE track[f]]
    ELSE c.Metadata

\* Lines 527-530 of Download: the tags of the i-th new file.
fileMetadata(c, file, fileIndex) ==
    IF c.PlaylistMetadata.present
      THEN getTrackMetadata(c.PlaylistMetadata, file, fileIndex)
    ELSE c.Metadata

(***************************************************************************)
(* Download                                                                *)
(***************************************************************************)
\* validURL without the trimming of blanks.
validURLUntrimmed(c) == c.URL # ""

\* Line 439 of Download: the URL check.
validURL(c) == TrimSpace(c.URL) # ""

\* applyMetadata leaving the tagged output beside the original instead of
\* renaming it over the original.
applyMetadataWithoutRename(files, filePath, outcome) ==
    LET tmpPath == TmpPath(filePath)
        removed == [files EXCEPT ![tmpPath] = "none"]
    IN  CASE outcome = "fail" ->
                [files |-> removed, err |-> "ffmpeg failed"]
          [] outcome = "failPartial" ->
                [files |-> [removed EXCEPT ![tmpPath] = "partial"], err |-> "ffmpeg failed"]
          [] outcome = "renameFail" ->
                [files |-> [removed EXCEPT ![tmpPath] = "tagged"], err |-> "rename failed"]
          [] outcome = "ok" ->
                [files |-> [removed EXCEPT ![tmpPath] = "tagged"], err |-> ""]

\* applyMetadata renaming whatever ffmpeg left behind over the original.
applyMetadataRenamesAlways(files, filePath, outcome) ==
    LET tmpPath == TmpPath(filePath)
        removed == [files EXCEPT ![tmpPath] = "none"]
    IN  CASE outcome = "fail" ->
                [files |-> [removed EXCEPT ![filePath] = "none"], err |-> "ffmpeg failed"]
          [] outcome = "failPartial" ->
                [files |-> [removed EXCEPT ![filePath] = "partial"], err |-> "ffmpeg failed"]
          [] outcome = "renameFail" ->
                [files |-> [removed EXCEPT ![tmpPath] = "tagged"], err |-> "rename failed"]
          [] outcome = "ok" ->
                [files |-> [removed EXCEPT ![filePath] = "tagged"], err |-> ""]

\* applyMetadata on the directory contents, by what ffmpeg and the rename did:
\* ok, fail (no output written), failPartial (output left behind), renameFail.
applyMetadata(files, filePath, outcome) ==
    LET tmpPath == TmpPath(filePath)
        removed == [files EXCEPT ![tmpPath] = "none"]
    IN  CASE outcome = "fail" ->
                [files |-> removed, err |-> "ffmpeg failed"]
          [] outcome = "failPartial" ->
                [files |-> [removed EXCEPT ![tmpPath] = "partial"], err |-> "ffmpeg failed"]
          [] outcome = "renameFail" ->
                [files |-> [removed EXCEPT ![tmpPath] = "tagged"], err |-> "rename failed"]
          [] outcome = "ok" ->
                [files |-> [removed EXCEPT ![filePath] = "tagged"], err |-> ""]

TagOutcomes == {"ok", "fail", "failPartial", "renameFail"}

\* What may happen while prepareCover resolves a cover source.
CoverOutcomes(cover) ==
    IF TrimSpace(cover) = "" THEN {"none"}
    ELSE IF ~isURL(cover) THEN {"found", "missing"}
    ELSE {"requestFail", "badStatus", "createTempFail", "writeFail", "downloaded"}

\* prepareCover handing the cover source back as the path when it failed.
prepareCoverKeepsSource(cover, outcome) ==
    CASE outcome = "none" ->
            [path |-> "", removes |-> FALSE, err |-> "", created |-> FALSE]
      [] outcome = "found" ->
            [path |-> cover, removes |-> FALSE, err |-> "", created |-> FALSE]
      [] outcome = "missing" ->
            [path |-> cover, removes |-> FALSE, err |-> "cover file", created |-> FALSE]
      [] outcome \in {"requestFail", "badStatus"} ->
            [path |-> cover, removes |-> FALSE, err |-> "download cover", created |-> FALSE]
      [] outcome = "createTempFail" ->
            [path |-> cover, removes |-> FALSE, err |-> "create temp cover", created |-> FALSE]
      [] outcome = "writeFail" ->
            [path |-> cover, removes |-> FALSE, err |-> "write cover", created |-> TRUE]
      [] outcome = "downloaded" ->
            [path |-> "/tmp/iturtle-cover", removes |-> TRUE, err |-> "", created |-> TRUE]

\* prepareCover: the path, whether the returned cleanup removes a temporary
\* file, the error, and whether a temporary file was created.
prepareCover(cover, outcome) ==
    CASE outcome = "none" ->
            [path |-> "", removes |-> FALSE, err |-> "", created |-> FALSE]
      [] outcome = "found" ->
            [path |-> cover, removes |-> FALSE, err |-> "", created |-> FALSE]
      [] outcome = "missing" ->
            [path |-> "", removes |-> FALSE, err |-> "cover file", created |-> FALSE]
      [] outcome \in {"requestFail", "badStatus"} ->
            [path |-> "", removes |-> FALSE, err |-> "download cover", created |-> FALSE]
      [] outcome = "createTempFail" ->
            [path |-> "", removes |-> FALSE, err |-> "create temp cover", created |-> FALSE]
      [] outcome = "writeFail" ->
            [path |-> "", removes |-> FALSE, err |-> "write cover", created |-> TRUE]
      [] outcome = "downloaded" ->
            [path |-> "/tmp/iturtle-cover", removes |-> TRUE, err |-> "", created |-> TRUE]

\* One entry of the runner's call log.
Call(name, file, meta, cover, track, ok) ==
    [name |-> name, file |-> file, meta |-> meta, cover |-> cover, track |-> track,
     ok |-> ok]

\* The history of first appearances after the directory came to hold files
\* during run r.
FirstSeen(seen, files, r) ==
    seen \cup {<<path, r>> : path \in {p \in Existing(files) :
                                          \A n \in 0..r : <<p, n>> \notin seen}}

NoFiles == [path \in Paths |-> "none"]

\* Directories a run may start from: files left by earlier, unrelated work.
InitialFiles ==
    {[path \in Paths |-> IF path \in old THEN "old" ELSE "none"] :
        old \in SUBSET {"1 - a.mp3", "a.mp3", "1 - a.mp3.tagged"}}

InitRun ==
    /\ dirExists \in BOOLEAN
    /\ fs \in InitialFiles
    /\ (~dirExists => fs = NoFiles)
    /\ tempCovers = 0
    /\ pc = "idle"
    /\ cfg = [URL |-> "", Cover |-> "", AudioFormat |-> "mp3", Metadata |-> EmptyMetadata,
              PlaylistMetadata |-> NoPlaylist]
    /\ beforeSnap = {}
    /\ newFiles = <<>>
    /\ idx = 0
    /\ coverSrc = ""
    /\ coverPath = ""
    /\ cleanup = FALSE
    /\ coverOutcome = ""
    /\ ret = [files |-> <<>>, err |-> ""]
    /\ calls = <<>>
    /\ entry = [fs |-> fs, dirExists |-> dirExists]
    /\ fetched = fs
    /\ deleted = {}
    /\ ioFailed = ""
    /\ runNo = 0
    /\ appeared = {<<path, 0>> : path \in Existing(fs)}
    /\ taggedIn = {}

\* Download is entered with Config c.
Enter(c) ==
    /\ pc = "idle"
    /\ cfg' = c
    /\ newFiles' = <<>>
    /\ idx' = 0
    /\ coverSrc' = ""
    /\ coverPath' = ""
    /\ cleanup' = FALSE
    /\ coverOutcome' = ""
    /\ calls' = <<>>
    /\ entry' = [fs |-> fs, dirExists |-> dirExists]
    /\ fetched' = fs
    /\ deleted' = {}
    /\ runNo' = runNo + 1
    /\ UNCHANGED <<fs, tempCovers, appeared, taggedIn>>
    /\ UNCHANGED <<pureVars, clientVars, mainVars>>

\* Download, lines 438-441: no URL.
DownloadRejectsURL(c) ==
    /\ Enter(c)
    /\ ~validURL(c)
    /\ ret' = [files |-> <<>>, err |-> "url is required"]
    /\ pc' = "done"
    /\ ioFailed' = ""
    /\ beforeSnap' = {}
    /\ UNCHANGED dirExists

\* Download, lines 443-459: the directory is made and snapshotted.
DownloadStart(c, mkdirOK, walkOK) ==
    /\ Enter(c)
    /\ validURL(c)
    /\ (dirExists => mkdirOK)
    /\ IF ~mkdirOK
         THEN /\ ret' = [files |-> <<>>, err |-> "create output dir"]
              /\ pc' = "done"
              /\ ioFailed' = "mkdir"
              /\ beforeSnap' = {}
              /\ UNCHANGED dirExists
       ELSE IF ~walkOK
         THEN /\ ret' = [files |-> <<>>, err |-> "walk"]
              /\ pc' = "done"
              /\ ioFailed' = "snapshotBefore"
              /\ beforeSnap' = {}
              /\ dirExists' = TRUE
       ELSE   /\ ret' = [files |-> <<>>, err |-> ""]
              /\ pc' = "fetch"
              /\ ioFailed' = ""
              /\ beforeSnap' = snapshotFiles(Existing(fs), audioFormat(c))
              /\ dirExists' = TRUE


\* Download returns (files, err).
Return(files, err) ==
    /\ ret' = [files |-> files, err |-> err]
    /\ pc' = "done"

\* Download, lines 461-489: the downloader runs, writing the files of written;
\* then the second snapshot and the diff.
Fetch(written, ok, walkOK) ==
    /\ pc = "fetch"
    /\ LET files == [path \in Paths |-> IF path \in written THEN "audio" ELSE fs[path]]
           diff == diffFiles(beforeSnap, snapshotFiles(Existing(files), audioFormat(cfg)))
       IN  /\ fs' = files
           /\ fetched' = files
           /\ appeared' = FirstSeen(appeared, files, runNo)
           /\ calls' = <<Call("yt-dlp", "", EmptyMetadata, "", EmptyTrack, ok)>>
           /\ IF ~ok
                THEN /\ Return(<<>>, "yt-dlp failed")
                     /\ UNCHANGED <<newFiles, ioFailed>>
              ELSE IF ~walkOK
                THEN /\ Return(<<>>, "walk")
                     /\ ioFailed' = "snapshotAfter"
                     /\ UNCHANGED newFiles
              ELSE IF diff = <<>>
                THEN /\ Return(<<>>, "no new audio files found after download")
                     /\ newFiles' = diff
                     /\ UNCHANGED ioFailed
              ELSE   /\ newFiles' = diff
                     /\ pc' = "cover"
                     /\ UNCHANGED <<ret, ioFailed>>
    /\ UNCHANGED <<dirExists, tempCovers, cfg, beforeSnap, idx, coverSrc, coverPath,
                   cleanup, entry, deleted, coverOutcome, runNo, taggedIn>>
    /\ UNCHANGED <<pureVars, clientVars, mainVars>>

\* Download, lines 491-514 and 542-545: the cover is prepared; with nothing to
\* embed the run ends here.
ResolveCover(outcome) ==
    /\ pc = "cover"
    /\ outcome \in CoverOutcomes(coverSource(cfg))
    /\ LET cover == prepareCover(coverSource(cfg), outcome)
           onDisk == IF cover.created THEN tempCovers + 1 ELSE tempCovers
       IN  /\ coverSrc' = coverSource(cfg)
           /\ coverOutcome' = outcome
           /\ coverPath' = cover.path
           /\ cleanup' = cover.removes
           /\ IF hasMetadata(cfg, cover.path)
                THEN /\ pc' = "tag"
                     /\ tempCovers' = onDisk
                     /\ UNCHANGED ret
                ELSE /\ Return(newFiles, "")
                     /\ tempCovers' = IF cover.removes THEN onDisk - 1 ELSE onDisk
    /\ UNCHANGED <<fs, dirExists, cfg, beforeSnap, newFiles, idx, calls, entry, fetched,
                   deleted, ioFailed, runNo, appeared, taggedIn>>
    /\ UNCHANGED <<pureVars, clientVars, mainVars>>

\* Download, lines 523-545: one turn of the tagging loop, and the return that
\* follows the last turn or a failed one.
TagFile(outcome) ==
    /\ pc = "tag"
    /\ idx < Len(newFiles)
    /\ LET file == newFiles[idx + 1]
           meta == fileMetadata(cfg, file, idx)
           track == IF cfg.PlaylistMetadata.present
                      THEN selectTrack(cfg.PlaylistMetadata.Tracks, file, idx)
                    ELSE EmptyTrack
           applied == applyMetadata(fs, file, outcome)
           finished == applied.err # "" \/ idx + 1 = Len(newFiles)
       IN  /\ fs' = applied.files
           /\ appeared' = FirstSeen(appeared, applied.files, runNo)
           /\ taggedIn' = taggedIn \cup {<<file, runNo>>}
           /\ deleted' = IF fs[TmpPath(file)] # "none" THEN deleted \cup {TmpPath(file)}
                         ELSE deleted
           /\ calls' = Append(calls, Call("ffmpeg", file, meta, coverPath, track,
                                          outcome \in {"ok", "renameFail"}))
           /\ idx' = IF applied.err = "" THEN idx + 1 ELSE idx
           /\ IF finished
                THEN /\ Return(newFiles, applied.err)
                     /\ tempCovers' = IF cleanup THEN tempCovers - 1 ELSE tempCovers
                ELSE UNCHANGED <<ret, pc, tempCovers>>
    /\ UNCHANGED <<dirExists, cfg, beforeSnap, newFiles, coverSrc, coverPath, cleanup,
                   entry, fetched, ioFailed, coverOutcome, runNo>>
    /\ UNCHANGED <<pureVars, clientVars, mainVars>>

(***************************************************************************)
(* The tagger's command line                                               *)
(***************************************************************************)
\* appendMetadata's add: the pair for one key, nothing for a blank value.
MetadataPair(key, value) ==
    IF TrimSpace(value) = "" THEN <<>>
    ELSE <<"-metadata", key \o "=" \o TrimSpace(value)>>

\* appendMetadata without the date pair that repeats the year.
appendMetadataNoDate(args, meta) ==
    args \o MetadataPair("title", meta.Title)
         \o MetadataPair("artist", meta.Artist)
         \o MetadataPair("album", meta.Album)
         \o MetadataPair("album_artist", meta.AlbumArtist)
         \o MetadataPair("composer", meta.Composer)
         \o MetadataPair("year", meta.Year)
         \o MetadataPair("genre", meta.Genre)
         \o MetadataPair("track", meta.Track)
         \o MetadataPair("comment", meta.Comment)

appendMetadata(args, meta) ==
    args \o MetadataPair("title", meta.Title)
         \o MetadataPair("artist", meta.Artist)
         \o MetadataPair("album", meta.Album)
         \o MetadataPair("album_artist", meta.AlbumArtist)
         \o MetadataPair("composer", meta.Composer)
         \o MetadataPair("year", meta.Year)
         \o MetadataPair("date", meta.Year)
         \o MetadataPair("genre", meta.Genre)
         \o MetadataPair("track", meta.Track)
         \o MetadataPair("comment", meta.Comment)

\* buildFFmpegArgs taking any non-empty cover path, blanks included, as a cover.
buildFFmpegArgsUntrimmed(input, output, meta, cover) ==
    LET hasCover == cover # ""
        inputs == IF hasCover THEN <<"-y", "-i", input, "-i", cover>>
                  ELSE <<"-y", "-i", input>>
        streams == IF hasCover
                     THEN <<"-map", "0:a", "-map", "1", "-c:a", "copy", "-c:v", "mjpeg",
                            "-metadata:s:v", "title=Album cover",
                            "-metadata:s:v", "comment=Cover (front)",
                            "-disposition:v:0", "attached_pic">>
                   ELSE <<"-map", "0:a", "-c", "copy">>
    IN  appendMetadata(inputs \o streams, meta)
            \o <<"-id3v2_version", "3", "-f", "mp3", output>>

buildFFmpegArgs(input, output, meta, cover) ==
    LET hasCover == TrimSpace(cover) # ""
        inputs == IF hasCover THEN <<"-y", "-i", input, "-i", cover>>
                  ELSE <<"-y", "-i", input>>
        streams == IF hasCover
                     THEN <<"-map", "0:a", "-map", "1", "-c:a", "copy", "-c:v", "mjpeg",
                            "-metadata:s:v", "title=Album cover",
                            "-metadata:s:v", "comment=Cover (front)",
                            "-disposition:v:0", "attached_pic">>
                   ELSE <<"-map", "0:a", "-c", "copy">>
    IN  appendMetadata(inputs \o streams, meta)
            \o <<"-id3v2_version", "3", "-f", "mp3", output>>

\* The values a tag field takes: empty, blank, and text with a blank around it.
FieldValues == {"", " ", " v"}

\* The cover paths handed to buildFFmpegArgs.
ArgsCovers == {"", " ", "c.jpg", "/tmp/iturtle-cover"}

(***************************************************************************)
(* The metadata-database client                                            *)
(***************************************************************************)
\* One second, the clock counting half seconds.
rateLimitDelay == 2

\* The zero time.Time a fresh Client holds in lastRequest: a time at least
\* rateLimitDelay before the program started.
ZeroTime == 0 - rateLimitDelay

Clients == {"c1", "c2"}

\* What the HTTP round trip of a request may give.
Statuses == {200, 204, 301, 399, 400, 403, 404, 500, 503}

Responses ==
    {[kind |-> "response", status |-> st, body |-> b] : st \in Statuses, b \in {"", "b"}}
    \cup {[kind |-> k, status |-> 0, body |-> ""] : k \in {"transportFail", "readFail"}}

\* doRequest treating every status from 400 on alike.
doRequestNoNotFound(response) ==
    IF response.kind = "transportFail" THEN [body |-> "", err |-> "execute request"]
    ELSE IF response.kind = "readFail" THEN [body |-> "", err |-> "read response"]
    ELSE IF response.status >= 400
        THEN [body |-> "",
              err |-> "API error: status " \o IntToStr(response.status) \o ": "
                          \o response.body]
    ELSE [body |-> response.body, err |-> ""]

\* doRequest, lines 177-195: the body and the error for what the round trip gave.
doRequest(response) ==
    IF response.kind = "transportFail" THEN [body |-> "", err |-> "execute request"]
    ELSE IF response.kind = "readFail" THEN [body |-> "", err |-> "read response"]
    ELSE IF response.status = 404 THEN [body |-> "", err |-> "not found"]
    ELSE IF response.status >= 400
        THEN [body |-> "",
              err |-> "API error: status " \o IntToStr(response.status) \o ": "
                          \o response.body]
    ELSE [body |-> response.body, err |-> ""]

\* rateLimit never sleeping.
rateLimitSleepNever(last, t) == 0

\* rateLimit: how long the client sleeps before its next request.
rateLimitSleep(last, t) ==
    IF t - last < rateLimitDelay THEN rateLimitDelay - (t - last) ELSE 0

InitClients ==
    /\ now = 0
    /\ lastRequest = [c \in Clients |-> ZeroTime]
    /\ issued = <<>>

\* Time passes while no request is being made.
TimePasses ==
    /\ now < MaxClock
    /\ now' = now + 1
    /\ UNCHANGED <<lastRequest, issued>>
    /\ UNCHANGED <<pureVars, runVars, mainVars>>

\* Client.doRequest on client c: rateLimit sleeps at least the remaining delta
\* (when it sleeps, over more than asked for), stamps lastRequest, then the
\* request goes out and response comes back.  The request counts as issued at
\* the time of the stamp.
DoRequest(c, response, over) ==
    /\ Len(issued) < MaxRequests
    /\ LET sleep == rateLimitSleep(lastRequest[c], now)
           woke == IF sleep > 0 THEN now + sleep + over ELSE now
       IN  /\ woke <= MaxClock + rateLimitDelay
           /\ now' = woke
           /\ lastRequest' = [lastRequest EXCEPT ![c] = woke]
           /\ issued' = Append(issued, [client |-> c, entered |-> now,
                                        slept |-> woke - now, at |-> woke])
    /\ arg' = [client |-> c, response |-> response]
    /\ out' = doRequest(response)
    /\ called' = TRUE
    /\ UNCHANGED <<runVars, mainVars>>

(***************************************************************************)
(* main and runBatchMode                                                   *)
(***************************************************************************)
\* downloader.Config{}
ZeroConfig ==
    [URL |-> "", Cover |-> "", AudioFormat |-> "", Metadata |-> EmptyMetadata,
     PlaylistMetadata |-> NoPlaylist]

\* No command line is being served.
NoInvocation ==
    [mode |-> "none", file |-> "ok", albums |-> <<>>, cli |-> ZeroConfig,
     musicBrainzID |-> ""]

NoMain ==
    /\ request = NoInvocation
    /\ stage = "none"
    /\ albumIdx = 0
    /\ pending = ZeroConfig
    /\ failed = <<>>
    /\ exitErr = ""
    /\ handed = <<>>

\* TrackConfig and AlbumConfig entries of a configuration file.
TrackEntry(num, title) ==
    [Num |-> num, Title |-> title, Artist |-> "", Composer |-> "", Comment |-> ""]

AlbumEntry(url, artist, album, mbid, tracks) ==
    [URL |-> url, Artist |-> artist, Album |-> album, AlbumArtist |-> "", Year |-> "",
     Genre |-> "", Cover |-> "", MusicBrainzID |-> mbid, AutoFetch |-> "",
     Tracks |-> tracks]

\* The album entries the configuration files are made of: a named album, an
\* unnamed one with a single override for position 2 and a lookup, one whose
\* url is blank, and one without url.
AlbumConfigs ==
    {AlbumEntry("u1", "Ar", "Al", "", <<>>),
     AlbumEntry("u2", "", "", "id", <<TrackEntry(2, "B")>>),
     AlbumEntry(" ", "", "", "", <<>>),
     AlbumEntry("", "", "Al", "", <<>>)}

RECURSIVE SeqsUpTo(_, _)
\* The sequences of at most n elements of S.
SeqsUpTo(S, n) ==
    IF n = 0 THEN {<<>>}
    ELSE LET shorter == SeqsUpTo(S, n - 1)
         IN  shorter \cup {Append(q, x) : q \in shorter, x \in S}

\* Parse validating the url of the first album only.
ParseFirstAlbumOnly(file, albums) ==
    IF file = "malformed" THEN "parse config"
    ELSE IF Len(albums) = 0 THEN "no albums defined in configuration"
    ELSE IF albums[1].URL = "" THEN "album 1: url is required"
    ELSE ""

\* config.Parse: the error for a file's contents, "" when it is accepted.
Parse(file, albums) ==
    IF file = "malformed" THEN "parse config"
    ELSE IF Len(albums) = 0 THEN "no albums defined in configuration"
    ELSE LET bad == {i \in 1..Len(albums) : albums[i].URL = ""}
         IN  IF bad = {} THEN ""
             ELSE "album " \o IntToStr(MinOf(bad)) \o ": url is required"

\* config.LoadFromFile
LoadFromFile(file, albums) ==
    IF file = "unreadable" THEN "read config file" ELSE Parse(file, albums)

\* AlbumConfig.ToDownloaderConfig; the AudioFormat is left empty.
ToDownloaderConfig(ac) ==
    [URL |-> ac.URL, Cover |-> ac.Cover, AudioFormat |-> "",
     Metadata |-> [EmptyMetadata EXCEPT !.Artist = ac.Artist, !.Album = ac.Album,
                                        !.AlbumArtist = ac.AlbumArtist,
                                        !.Year = ac.Year, !.Genre = ac.Genre],
     PlaylistMetadata |->
        IF Len(ac.Tracks) > 0 \/ ac.Artist # "" \/ ac.Album # ""
          THEN [present |-> TRUE,
                AlbumInfo |->
                    [Title |-> ac.Album, Artist |-> ac.Artist,
                     AlbumArtist |-> IF ac.AlbumArtist = "" THEN ac.Artist
                                     ELSE ac.AlbumArtist,
                     Year |-> ac.Year, Genre |-> ac.Genre, Comment |-> "",
                     TotalTracks |-> Len(ac.Tracks), CoverURL |-> ac.Cover,
                     CoverPath |-> ""],
                Tracks |-> [k \in 1..Len(ac.Tracks) |->
                               [Position |-> ac.Tracks[k].Num,
                                Title |-> ac.Tracks[k].Title,
                                Artist |-> ac.Tracks[k].Artist,
                                Composer |-> ac.Tracks[k].Composer,
                                Comment |-> ac.Tracks[k].Comment]]]
        ELSE NoPlaylist]

NeedsMusicBrainzLookup(ac) == ac.MusicBrainzID # "" \/ ac.AutoFetch # ""

\* What the metadata database answers during one lookup: to the search, to the
\* release request and to the cover-art request, and whether the search found
\* a release.
LookupResponses ==
    {[kind |-> "response", status |-> st, body |-> "b"] : st \in {200, 404, 500}}

Lookups ==
    [search : LookupResponses, hits : BOOLEAN, release : LookupResponses,
     cover : LookupResponses]

\* The playlist metadata the converter builds from the release found, with
\* the front cover when the Cover Art Archive has one.
LookupPlaylist(coverURL) ==
    [present |-> TRUE,
     AlbumInfo |-> [PlaylistAlbum(2) EXCEPT !.CoverURL = coverURL],
     Tracks |-> <<PlaylistTrack(1), PlaylistTrack(2)>>]

\* fetchMusicBrainzMetadata: the playlist metadata and the error.
fetchMusicBrainzMetadata(mbID, autoQuery, lookup) ==
    LET release == doRequest(lookup.release)
        search == doRequest(lookup.search)
        coverURL == IF doRequest(lookup.cover).err = "" THEN "http://m/f.jpg" ELSE ""
        found == [pm |-> LookupPlaylist(coverURL), err |-> ""]
    IN  IF mbID # ""
          THEN IF release.err # "" THEN [pm |-> NoPlaylist, err |-> "fetch release by ID"]
               ELSE found
        ELSE IF autoQuery # ""
          THEN IF search.err # "" THEN [pm |-> NoPlaylist, err |-> "search releases"]
               ELSE IF ~lookup.hits THEN [pm |-> NoPlaylist, err |-> "no releases found"]
               ELSE IF release.err # ""
                 THEN [pm |-> NoPlaylist, err |-> "fetch release details"]
               ELSE found
        ELSE [pm |-> NoPlaylist, err |-> "either musicbrainz-id or auto-fetch-metadata is required"]

\* The Config the -url, -artist, -album and -year flags of main build.
CliConfig(url) ==
    [ZeroConfig EXCEPT !.URL = url, !.AudioFormat = "mp3", !.Metadata = UniformMetadata]

\* The command lines: batch mode over a configuration file, single mode.
Invocations ==
    {[mode |-> "batch", file |-> "ok", albums |-> albums, cli |-> ZeroConfig,
      musicBrainzID |-> ""] : albums \in SeqsUpTo(AlbumConfigs, MaxAlbums)}
    \cup
    {[mode |-> "batch", file |-> f, albums |-> <<>>, cli |-> ZeroConfig,
      musicBrainzID |-> ""] : f \in {"unreadable", "malformed"}}
    \cup
    {[mode |-> "single", file |-> "ok", albums |-> <<>>, cli |-> CliConfig(u),
      musicBrainzID |-> id] : u \in {"u", " "}, id \in {"", "id"}}

\* withLookup replacing the playlist metadata even when the lookup failed.
withLookupAlways(base, wanted, found) ==
    IF wanted THEN [base EXCEPT !.PlaylistMetadata = found.pm] ELSE base

\* main, lines 111-120, and runBatchMode, lines 163-172: the playlist metadata
\* found replaces the Config's only when the lookup succeeded.
withLookup(base, wanted, found) ==
    IF wanted /\ found.err = "" THEN [base EXCEPT !.PlaylistMetadata = found.pm]
    ELSE base

\* failedName never using the album name.
failedNameURL(ac) == ac.URL

\* runBatchMode, lines 178-181: the identifier of a failed album.
failedName(ac) == IF ac.Album = "" THEN ac.URL ELSE ac.Album

\* One entry of the log of Download calls.
Handed(album, c, lookup) ==
    [album |-> album, cfg |-> c, lookup |-> lookup, err |-> "running"]

\* runBatchMode, lines 134-142: the configuration file is loaded.
LoadConfig ==
    /\ stage = "start"
    /\ request.mode = "batch"
    /\ LET err == LoadFromFile(request.file, request.albums)
       IN  IF err # ""
             THEN /\ stage' = "exit"
                  /\ exitErr' = "load config: " \o err
           ELSE   /\ stage' = "album"
                  /\ exitErr' = ""
    /\ albumIdx' = 0
    /\ failed' = <<>>
    /\ UNCHANGED <<request, pending, handed>>
    /\ UNCHANGED <<pureVars, runVars, clientVars>>

\* runBatchMode, lines 144-173: the Config of album i is built and the
\* metadata database is asked when the album wants it.
PrepareAlbum(lookup) ==
    /\ stage = "album"
    /\ request.mode = "batch"
    /\ albumIdx < Len(request.albums)
    /\ LET ac == request.albums[albumIdx + 1]
           base == [ToDownloaderConfig(ac) EXCEPT !.AudioFormat = "mp3"]
           found == fetchMusicBrainzMetadata(ac.MusicBrainzID, ac.AutoFetch, lookup)
           wanted == NeedsMusicBrainzLookup(ac)
           c == withLookup(base, wanted, found)
       IN  /\ pending' = c
           /\ handed' = Append(handed,
                               Handed(albumIdx + 1, c,
                                      IF ~wanted THEN "none"
                                      ELSE IF found.err = "" THEN "found"
                                      ELSE "failed"))
    /\ stage' = "download"
    /\ UNCHANGED <<request, albumIdx, failed, exitErr>>
    /\ UNCHANGED <<pureVars, runVars, clientVars>>

\* runBatchMode, lines 175-199: Download has returned; a failure is recorded,
\* and after the last album the batch returns.
CollectAlbum ==
    /\ stage = "download"
    /\ request.mode = "batch"
    /\ pc = "done"
    /\ LET ac == request.albums[albumIdx + 1]
           list == IF ret.err # "" THEN Append(failed, failedName(ac)) ELSE failed
       IN  /\ failed' = list
           /\ IF albumIdx + 1 = Len(request.albums)
                THEN /\ stage' = "exit"
                     /\ exitErr' = IF Len(list) > 0
                                     THEN IntToStr(Len(list)) \o " album(s) failed"
                                   ELSE ""
                ELSE /\ stage' = "album"
                     /\ UNCHANGED exitErr
    /\ handed' = [handed EXCEPT ![Len(handed)].err = ret.err]
    /\ albumIdx' = albumIdx + 1
    /\ pc' = "idle"
    /\ UNCHANGED <<request, pending>>
    /\ UNCHANGED <<fs, dirExists, tempCovers, cfg, beforeSnap, newFiles, idx, coverSrc,
                   coverPath, cleanup, ret, calls, entry, fetched, deleted, ioFailed,
                   coverOutcome, runNo, appeared, taggedIn>>
    /\ UNCHANGED <<pureVars, clientVars>>

\* main, lines 101-121: single mode; without a url the usage is printed and
\* the program exits with status 1.
PrepareSingle(lookup) ==
    /\ stage = "start"
    /\ request.mode = "single"
    /\ IF TrimSpace(request.cli.URL) = ""
         THEN /\ stage' = "exit"
              /\ exitErr' = "usage"
              /\ UNCHANGED <<pending, handed>>
       ELSE LET found == fetchMusicBrainzMetadata(request.musicBrainzID, "", lookup)
                wanted == request.musicBrainzID # ""
                c == withLookup(request.cli, wanted, found)
            IN  /\ pending' = c
                /\ handed' = Append(handed,
                                    Handed(1, c, IF ~wanted THEN "none"
                                                 ELSE IF found.err = "" THEN "found"
                                                 ELSE "failed"))
                /\ stage' = "download"
                /\ UNCHANGED exitErr
    /\ UNCHANGED <<request, albumIdx, failed>>
    /\ UNCHANGED <<pureVars, runVars, clientVars>>

\* main, lines 125-130: Download has returned; a failure is exit status 1.
ExitSingle ==
    /\ stage = "download"
    /\ request.mode = "single"
    /\ pc = "done"
    /\ stage' = "exit"
    /\ exitErr' = ret.err
    /\ handed' = [handed EXCEPT ![Len(handed)].err = ret.err]
    /\ UNCHANGED <<request, albumIdx, pending, failed>>
    /\ UNCHANGED <<pureVars, runVars, clientVars>>

\* main, line 125, and runBatchMode, line 175: dl.Download(ctx, cfg) with the
\* Config just built; the url is blank.
CallDownloadRejected ==
    /\ stage = "download"
    /\ DownloadRejectsURL(pending)

\* main, line 125, and runBatchMode, line 175: dl.Download(ctx, cfg) with the
\* Config just built.
CallDownload(mkdirOK) ==
    /\ stage = "download"
    /\ DownloadStart(pending, mkdirOK, TRUE)

\* The sets of files the downloader writes while a command line is served.
MainWritten == {{}, {"1 - a.mp3"}, {"1 - a.mp3", "2 - b.mp3"}}

InitMain ==
    /\ InitRun /\ dirExists = FALSE /\ InitClients
    /\ arg = <<>> /\ out = <<>> /\ called = FALSE
    /\ request \in Invocations
    /\ stage = "start"
    /\ albumIdx = 0
    /\ pending = ZeroConfig
    /\ failed = <<>>
    /\ exitErr = ""
    /\ handed = <<>>

NextMain ==
    \/ LoadConfig
    \/ \E lookup \in Lookups : PrepareAlbum(lookup)
    \/ \E lookup \in Lookups : PrepareSingle(lookup)
    \/ CallDownloadRejected
    \/ \E mkdirOK \in BOOLEAN : CallDownload(mkdirOK)
    \/ \E written \in MainWritten : \E ok \in BOOLEAN : Fetch(written, ok, TRUE)
    \/ \E outcome \in {"none", "requestFail", "badStatus", "createTempFail", "writeFail",
                       "downloaded"} :
           ResolveCover(outcome)
    \/ \E outcome \in {"ok", "fail"} : TagFile(outcome)
    \/ CollectAlbum
    \/ ExitSingle

SpecMain == InitMain /\ [][NextMain]_vars

Next ==
    \/ \E c \in Configs : DownloadRejectsURL(c)
    \/ \E c \in Configs : \E mkdirOK \in BOOLEAN : \E walkOK \in BOOLEAN :
           DownloadStart(c, mkdirOK, walkOK)
    \/ \E written \in SUBSET DownloadNames : \E ok \in BOOLEAN : \E walkOK \in BOOLEAN :
           Fetch(written, ok, walkOK)
    \/ \E outcome \in {"none", "found", "missing", "requestFail", "badStatus",
                       "createTempFail", "writeFail", "downloaded"} :
           ResolveCover(outcome)
    \/ \E outcome \in TagOutcomes : TagFile(outcome)

Init ==
    /\ InitRun /\ InitClients /\ NoMain
    /\ arg = <<>> /\ out = <<>> /\ called = FALSE

Spec == Init /\ [][Next]_vars

(***************************************************************************)
(* Specifications of the pure functions: Init draws the inputs, the action *)
(* applies the function.                                                   *)
(***************************************************************************)
\* The run variables while a pure function is checked: no run in progress.
NoRun == InitRun /\ dirExists = FALSE /\ NoMain

InitExtract == NoRun /\ InitClients /\ arg \in ExtractInputs /\ out = 0 /\ called = FALSE

CallExtract ==
    /\ ~called
    /\ out' = extractPlaylistIndex(arg.filename)
    /\ called' = TRUE
    /\ UNCHANGED arg
    /\ UNCHANGED <<runVars, clientVars, mainVars>>

SpecExtract == InitExtract /\ [][CallExtract]_vars

InitDiff ==
    /\ NoRun /\ InitClients
    /\ arg \in [before : SUBSET DiffNames, after : SUBSET DiffNames]
    /\ out = <<>> /\ called = FALSE

CallDiff ==
    /\ ~called
    /\ out' = diffFiles(arg.before, arg.after)
    /\ called' = TRUE
    /\ UNCHANGED arg
    /\ UNCHANGED <<runVars, clientVars, mainVars>>

SpecDiff == InitDiff /\ [][CallDiff]_vars

InitMerge ==
    /\ NoRun /\ InitClients
    /\ arg \in [album : MergeAlbums, track : MergeTracks, position : Positions]
    /\ out = EmptyMetadata /\ called = FALSE

CallMerge ==
    /\ ~called
    /\ out' = MergeTrackMetadata(arg.album, arg.track, arg.position)
    /\ called' = TRUE
    /\ UNCHANGED arg
    /\ UNCHANGED <<runVars, clientVars, mainVars>>

SpecMerge == InitMerge /\ [][CallMerge]_vars

InitArgs ==
    /\ NoRun /\ InitClients
    /\ arg \in [input : {"in.mp3"}, output : {"in.mp3.tagged"}, coverPath : ArgsCovers,
                 meta : [Title : FieldValues, Artist : FieldValues, Album : FieldValues,
                         AlbumArtist : FieldValues, Composer : FieldValues,
                         Year : FieldValues, Genre : FieldValues, Track : FieldValues,
                         Comment : FieldValues]]
    /\ out = <<>> /\ called = FALSE

CallArgs ==
    /\ ~called
    /\ out' = buildFFmpegArgs(arg.input, arg.output, arg.meta, arg.coverPath)
    /\ called' = TRUE
    /\ UNCHANGED arg
    /\ UNCHANGED <<runVars, clientVars, mainVars>>

SpecArgs == InitArgs /\ [][CallArgs]_vars

InitRequest ==
    /\ NoRun /\ InitClients
    /\ arg = [client |-> "c1", response |-> [kind |-> "response", status |-> 0, body |-> ""]]
    /\ out = [body |-> "", err |-> ""] /\ called = FALSE

NextRequest ==
    \/ TimePasses
    \/ \E c \in Clients : \E response \in Responses : \E over \in {0, 1} :
           DoRequest(c, response, over)

SpecRequest == InitRequest /\ [][NextRequest]_vars

\* Entries of an output directory: files in the root and in a subdirectory,
\* extensions in both cases, a directory whose name carries the extension.
SnapshotEntries ==
    {[rel |-> "1 - a.mp3", isDir |-> FALSE], [rel |-> "b.MP3", isDir |-> FALSE],
     [rel |-> "a.mp", isDir |-> FALSE], [rel |-> "g.", isDir |-> FALSE],
     [rel |-> "d", isDir |-> TRUE], [rel |-> "d/3 - s.mp3", isDir |-> FALSE],
     [rel |-> "e.mp3", isDir |-> TRUE], [rel |-> "e.mp3/c.Mp3", isDir |-> FALSE]}

\* A tree holds the directory of every entry it holds.
IsTree(entries) ==
    /\ (\E e \in entries : e.rel = "d/3 - s.mp3") => (\E e \in entries : e.rel = "d")
    /\ (\E e \in entries : e.rel = "e.mp3/c.Mp3") => (\E e \in entries : e.rel = "e.mp3")

\* The formats Download passes: trimmed, lower case, never empty.
SnapshotFormats == {"mp3", ".mp3", "mp", "."}

InitSnapshot ==
    /\ NoRun /\ InitClients
    /\ \E tree \in {t \in SUBSET SnapshotEntries : IsTree(t)} :
       \E format \in SnapshotFormats :
       \E walkErr \in {"", "permission denied"} :
       \E seen \in (IF walkErr = "" THEN {tree} ELSE SUBSET tree) :
           arg = [tree |-> tree, format |-> format, seen |-> seen,
                  walkErr |-> walkErr]
    /\ out = [files |-> {}, err |-> ""] /\ called = FALSE

CallSnapshot ==
    /\ ~called
    /\ out' = snapshotDir(arg.tree, arg.format, arg.seen, arg.walkErr)
    /\ called' = TRUE
    /\ UNCHANGED arg
    /\ UNCHANGED <<runVars, clientVars, mainVars>>

SpecSnapshot == InitSnapshot /\ [][CallSnapshot]_vars

(***************************************************************************)
(* The release converter                                                   *)
(***************************************************************************)
\* Most media of a release, and most tracks of a medium.
MaxMedia == 2
MaxDiscTracks == 2

RECURSIVE GetArtistName(_)
\* GetArtistName: the credited names, each followed by its join phrase.
GetArtistName(credits) ==
    IF credits = <<>> THEN ""
    ELSE LET credit == Head(credits)
             name == IF credit.Name = "" THEN credit.Artist ELSE credit.Name
         IN  name \o credit.JoinPhrase \o GetArtistName(Tail(credits))

ExtractYear(date) == IF Len(date) >= 4 THEN SubSeq(date, 1, 4) ELSE date

\* Track.Recording == nil
NoRecording == [present |-> FALSE, Title |-> "", ArtistCredit |-> <<>>]

\* ToPlaylistMetadata, lines 44-72: the record of one track, trackPosition
\* being the counter after its increment and discNum the index of the medium.
ConvertTrack(release, track, trackPosition, discNum) ==
    LET recording == track.Recording
        trackArtist == GetArtistName(recording.ArtistCredit)
        multi == Len(release.Media) > 1
    IN  [Position   |-> trackPosition,
         Title      |-> IF recording.present /\ recording.Title # ""
                          THEN recording.Title ELSE track.Title,
         Artist     |-> IF /\ recording.present
                           /\ trackArtist # ""
                           /\ trackArtist # GetArtistName(release.ArtistCredit)
                          THEN trackArtist ELSE "",
         Composer   |-> "",
         Comment    |-> "",
         DiscNumber |-> IF multi THEN discNum + 1 ELSE 0,
         TotalDiscs |-> IF multi THEN Len(release.Media) ELSE 0]

RECURSIVE ConvertTracks(_, _, _, _, _)
\* The inner loop over the tracks of one medium, from its j-th track on.
ConvertTracks(release, tracks, j, trackPosition, discNum) ==
    IF j > Len(tracks) THEN <<>>
    ELSE <<ConvertTrack(release, tracks[j], trackPosition + 1, discNum)>>
            \o ConvertTracks(release, tracks, j + 1, trackPosition + 1, discNum)

RECURSIVE ConvertMediaPerDisc(_, _, _)
\* The loop over the media with the track counter starting again on each disc.
ConvertMediaPerDisc(release, discNum, trackPosition) ==
    IF discNum >= Len(release.Media) THEN <<>>
    ELSE LET tracks == release.Media[discNum + 1].Tracks
         IN  ConvertTracks(release, tracks, 1, 0, discNum)
                \o ConvertMediaPerDisc(release, discNum + 1, 0)

RECURSIVE ConvertMedia(_, _, _)
\* The outer loop over the media from index discNum (0-based) on; the track
\* counter runs on from one medium to the next.
ConvertMedia(release, discNum, trackPosition) ==
    IF discNum >= Len(release.Media) THEN <<>>
    ELSE LET tracks == release.Media[discNum + 1].Tracks
         IN  ConvertTracks(release, tracks, 1, trackPosition, discNum)
                \o ConvertMedia(release, discNum + 1, trackPosition + Len(tracks))

RECURSIVE CountTracks(_)
\* totalTracks: the tracks of all media, summed.
CountTracks(media) ==
    IF media = <<>> THEN 0 ELSE Len(Head(media).Tracks) + CountTracks(Tail(media))

ToPlaylistMetadata(release) ==
    IF ~release.present THEN NoPlaylist
    ELSE [present   |-> TRUE,
          AlbumInfo |-> [EmptyAlbum EXCEPT
                            !.Title = release.Title,
                            !.Artist = GetArtistName(release.ArtistCredit),
                            !.AlbumArtist = GetArtistName(release.ArtistCredit),
                            !.Year = ExtractYear(release.Date),
                            !.TotalTracks = CountTracks(release.Media)],
          Tracks    |-> ConvertMedia(release, 0, 0)]

\* The tracks of a release: without a recording, with a recording by the
\* album's artist, with a recording of another title by two other artists.
ReleaseTracks ==
    {[Title |-> "A", Recording |-> r] :
        r \in {NoRecording,
                [present |-> TRUE, Title |-> "",
                 ArtistCredit |-> <<[Name |-> "Ar", Artist |-> "", JoinPhrase |-> ""]>>],
                [present |-> TRUE, Title |-> "R",
                 ArtistCredit |-> <<[Name |-> "", Artist |-> "X", JoinPhrase |-> " & "],
                                    [Name |-> "Y", Artist |-> "Z", JoinPhrase |-> ""]>>]}}

\* release == nil
NoRelease ==
    [present |-> FALSE, Title |-> "", Date |-> "", ArtistCredit |-> <<>>, Media |-> <<>>]

InitConvert ==
    /\ NoRun /\ InitClients
    /\ \/ arg = NoRelease
       \/ \E media \in SeqsUpTo({[Tracks |-> t] : t \in SeqsUpTo(ReleaseTracks, MaxDiscTracks)},
                                MaxMedia) :
          \E date \in {"2008-05-20", "08"} :
              arg = [present |-> TRUE, Title |-> "Al", Date |-> date,
                     ArtistCredit |-> <<[Name |-> "Ar", Artist |-> "", JoinPhrase |-> ""]>>,
                     Media |-> media]
    /\ out = NoPlaylist /\ called = FALSE

CallConvert ==
    /\ ~called
    /\ out' = ToPlaylistMetadata(arg)
    /\ called' = TRUE
    /\ UNCHANGED arg
    /\ UNCHANGED <<runVars, clientVars, mainVars>>

SpecConvert == InitConvert /\ [][CallConvert]_vars

(***************************************************************************)
(* Properties of the pure functions                                        *)
(***************************************************************************)
SeqElems(q) == {q[i] : i \in 1..Len(q)}

\* The text after the last slash of a path.
AfterLastSlash(path) ==
    LET sl == {i \in 1..Len(path) : Char(path, i) = "/"}
    IN  IF sl = {} THEN path ELSE SubSeq(path, MaxOf(sl) + 1, Len(path))

\* The lengths k >= 1 such that the first k bytes of base are decimal digits
\* and are followed by " - ".
DigitPrefixes(base) ==
    {k \in 1..(Len(base) - 3) :
        /\ \A i \in 1..k : IsDigit(Char(base, i))
        /\ SubSeq(base, k + 1, k + 3) = " - "}

RECURSIVE DecimalValue(_, _)
\* The number written by the digit string s, read left to right from acc.
DecimalValue(s, acc) ==
    IF s = "" THEN acc
    ELSE DecimalValue(SubSeq(s, 2, Len(s)), 10 * acc + DigitVal(Char(s, 1)))

\* The decimal numeral of n, for -99 <= n <= 99.
Numeral(n) ==
    LET m == IF n < 0 THEN 0 - n ELSE n
        digits == IF m < 10 THEN DigitChar(m)
                  ELSE DigitChar(m \div 10) \o DigitChar(m % 10)
    IN  IF n < 0 THEN "-" \o digits ELSE digits

\* C2: diffFiles(before, after) returns exactly the paths of after that are not
\* in before, in strictly ascending bytewise order (hence without duplicates),
\* and returns nothing when after is a subset of before.
DiffIsSortedDifference ==
    called =>
        /\ SeqElems(out) = arg.after \ arg.before
        /\ \A i \in 1..Len(out) : \A j \in 1..Len(out) :
              i < j => StrLess(out[i], out[j])
        /\ (arg.after \subseteq arg.before => out = <<>>)

DiffWitness ==
    /\ called
    /\ out = <<"10 - c.mp3", "2 - b.mp3", "a.mp3">>
    /\ "1 - a.mp3" \in arg.before \cap arg.after
    /\ "a.mp" \in arg.before \ arg.after

\* C3: when the base name starts with a run of decimal digits N followed by
\* " - ", extractPlaylistIndex returns the number N writes (leading zeros
\* allowed); when the base name holds no " - " at an offset greater than zero,
\* it returns 0.
ExtractReturnsDigitPrefix ==
    called =>
        LET base == AfterLastSlash(arg.filename)
        IN  /\ \A k \in DigitPrefixes(base) :
                  out = DecimalValue(SubSeq(base, 1, k), 0)
            /\ ((\A k \in 2..(Len(base) - 2) : SubSeq(base, k, k + 2) # " - ")
                  => out = 0)

ExtractWitness ==
    /\ called
    /\ arg.filename = "d/01 - 3 - s.mp3"
    /\ out = 1

\* C4: Artist is the track's artist when that is non-empty and the album's
\* artist otherwise; AlbumArtist is the album's album-artist when that is
\* non-empty and the album's artist otherwise.
MergeArtistPrecedence ==
    called =>
        /\ out.Artist = IF arg.track.Artist # "" THEN arg.track.Artist
                        ELSE arg.album.Artist
        /\ out.AlbumArtist = IF arg.album.AlbumArtist # "" THEN arg.album.AlbumArtist
                             ELSE arg.album.Artist

MergeArtistWitness ==
    /\ called
    /\ arg.track.Artist = "Ta" /\ arg.album.Artist = "Ar" /\ out.Artist = "Ta"
    /\ arg.album.AlbumArtist = "" /\ out.AlbumArtist = "Ar"

\* C5: with n the track's position when positive and the fallback position
\* otherwise, Track is "n/TotalTracks" when TotalTracks > 0, "n" when
\* TotalTracks <= 0 and n > 0, and empty otherwise; 10 and 3 give "3/10",
\* 0 and 5 give "5", 12 with no position and fallback 1 gives "1/12".
MergeTrackNumber ==
    called =>
        LET n == IF arg.track.Position > 0 THEN arg.track.Position ELSE arg.position
            total == arg.album.TotalTracks
        IN  /\ total > 0 => out.Track = Numeral(n) \o "/" \o Numeral(total)
            /\ (total <= 0 /\ n > 0) => out.Track = Numeral(n)
            /\ (total <= 0 /\ n <= 0) => out.Track = ""
            /\ (total = 10 /\ arg.track.Position = 3) => out.Track = "3/10"
            /\ (total = 0 /\ arg.track.Position = 5) => out.Track = "5"
            /\ (total = 12 /\ arg.track.Position = 0 /\ arg.position = 1)
                  => out.Track = "1/12"

MergeTrackNumberWitness ==
    /\ called
    /\ arg.album.TotalTracks = 12 /\ arg.track.Position = 0 /\ arg.position = 1
    /\ out.Track = "1/12"

\* C6: the album's title, year and genre are carried through verbatim; Comment
\* is the track's comment when non-empty and the album's otherwise; Title and
\* Composer are the track's values, empty when the track has none.
MergeCarriesAlbumFields ==
    called =>
        /\ out.Album = arg.album.Title
        /\ out.Year = arg.album.Year
        /\ out.Genre = arg.album.Genre
        /\ out.Comment = IF arg.track.Comment # "" THEN arg.track.Comment
                         ELSE arg.album.Comment
        /\ out.Title = arg.track.Title
        /\ out.Composer = arg.track.Composer

MergeCarriesWitness ==
    /\ called
    /\ arg.album.Title = "Al" /\ arg.album.Year = "2024" /\ arg.album.Genre = "Rock"
    /\ arg.album.Comment = "ac" /\ arg.track.Comment = "tc" /\ out.Comment = "tc"
    /\ arg.track.Title = "" /\ out.Title = ""
    /\ arg.track.Composer = "Tc" /\ out.Composer = "Tc"

(***************************************************************************)
(* Properties of a Download run                                            *)
(***************************************************************************)
\* The audio files that were not in the directory when Download was entered
\* and were there when the downloader returned.
NewSet ==
    {path \in Paths :
        /\ Len(path) > 4 /\ SubSeq(path, Len(path) - 3, Len(path)) = ".mp3"
        /\ entry.fs[path] = "none"
        /\ fetched[path] # "none"}

\* The input files of the tagger invocations of this run, in order.
TaggerInputs ==
    LET tagger == SelectSeq(calls, LAMBDA call : call.name = "ffmpeg")
    IN  [i \in 1..Len(tagger) |-> tagger[i].file]

BlankURL == \A i \in 1..Len(cfg.URL) : Char(cfg.URL, i) = " "

\* Something of Config.Metadata, a cover or playlist metadata is to be embedded.
SomethingToEmbed ==
    cfg.Metadata # EmptyMetadata \/ coverPath # "" \/ cfg.PlaylistMetadata.present

\* C1: every file the run passes to the tagger or deletes is a file of
\* after \ before, and every file that was in the directory when Download was
\* entered still holds what it held when the downloader returned.
OnlyNewFilesTouched ==
    /\ SeqElems(TaggerInputs) \subseteq NewSet
    /\ deleted \subseteq NewSet
    /\ \A path \in Paths : entry.fs[path] # "none" => fs[path] = fetched[path]

\* C7: a run that fails in steps 1 to 4 returns an error and no files and
\* never invokes the tagger; with a blank URL no subprocess is invoked and the
\* output directory is not created.
EarlyFailureIsFatal ==
    /\ (pc = "done" /\ (\/ BlankURL
                        \/ ioFailed # ""
                        \/ (calls # <<>> /\ ~calls[1].ok)
                        \/ (calls # <<>> /\ NewSet = {})))
          => /\ ret.err # ""
             /\ ret.files = <<>>
             /\ TaggerInputs = <<>>
    /\ BlankURL => (calls = <<>> /\ dirExists = entry.dirExists /\ pc \in {"idle", "done"})

EarlyFailureWitness ==
    /\ pc = "done"
    /\ calls # <<>> /\ calls[1].ok /\ ioFailed = ""
    /\ entry.fs["a.mp3"] = "old" /\ fetched["a.mp3"] = "audio"
    /\ NewSet = {}
    /\ ret.err = "no new audio files found after download"

BlankURLWitness ==
    /\ pc = "done" /\ cfg.URL = " " /\ ~dirExists /\ ret.err = "url is required"

\* C8 as stated: every run that gets past the diff step and ends without an
\* error has invoked the tagger for each file of the diff.
TaggerRunsForEveryNewFile ==
    (pc = "done" /\ calls # <<>> /\ NewSet # {} /\ ret.err = "")
        => SeqElems(TaggerInputs) = NewSet

\* C8, amended: the downloader is the first and only yt-dlp invocation; the
\* tagger inputs are files of the diff, strictly ascending, skipping none, and
\* only the last invocation may have failed; a run past the diff step that
\* ends without error has tagged every file of the diff when there is
\* something to embed, and none when there is nothing to embed.
TaggerCallsFollowDiff ==
    /\ \A i \in 1..Len(calls) : (calls[i].name = "yt-dlp") <=> (i = 1)
    /\ \A i \in 2..Len(calls) : calls[i].name = "ffmpeg"
    /\ Len(TaggerInputs) = Len(calls) - (IF calls = <<>> THEN 0 ELSE 1)
    /\ SeqElems(TaggerInputs) \subseteq NewSet
    /\ \A i \in 1..Len(TaggerInputs) : \A j \in 1..Len(TaggerInputs) :
          i < j => StrLess(TaggerInputs[i], TaggerInputs[j])
    /\ \A path \in NewSet : \A i \in 1..Len(TaggerInputs) :
          StrLess(path, TaggerInputs[i]) => path \in SeqElems(TaggerInputs)
    /\ \A i \in 2..(Len(calls) - 1) : calls[i].ok /\ fs[calls[i].file] = "tagged"
    /\ (pc = "done" /\ calls # <<>> /\ NewSet # {} /\ ret.err = "")
          => IF SomethingToEmbed THEN SeqElems(TaggerInputs) = NewSet
             ELSE TaggerInputs = <<>>

TaggerCallsWitness ==
    /\ pc = "done" /\ ret.err = ""
    /\ entry.fs["a.mp3"] = "old"
    /\ TaggerInputs = <<"1 - a.mp3", "2 - b.mp3">>
    /\ NewSet = {"1 - a.mp3", "2 - b.mp3"}

\* C9: the tagger invocation for the i-th file (0-based) of a run with playlist
\* metadata carries the track at the index taken from the file's name when
\* that index is in range, else the track at i when there is one, else an
\* empty track; "1 - a.mp3" gets the first track and "2 - b.mp3" the second
\* wherever they stand in the diff.
TrackChosenByFilenameIndex ==
    \A n \in 2..Len(calls) :
        cfg.PlaylistMetadata.present =>
            LET i == n - 2
                tracks == cfg.PlaylistMetadata.Tracks
                extracted == extractPlaylistIndex(calls[n].file)
                trackIndex == IF extracted # 0 THEN extracted ELSE i + 1
                expected == IF 1 <= trackIndex /\ trackIndex <= Len(tracks)
                               THEN tracks[trackIndex]
                            ELSE IF i < Len(tracks) THEN tracks[i + 1]
                            ELSE EmptyTrack
            IN  /\ calls[n].track = expected
                /\ calls[n].meta.Title = expected.Title
                /\ (calls[n].file = "1 - a.mp3" /\ Len(tracks) >= 1)
                      => calls[n].meta.Title = "T1"
                /\ (calls[n].file = "2 - b.mp3" /\ Len(tracks) >= 2)
                      => calls[n].meta.Title = "T2"

TrackChosenWitness ==
    /\ Len(calls) = 3
    /\ Len(cfg.PlaylistMetadata.Tracks) = 2
    /\ calls[2].file = "2 - b.mp3" /\ calls[2].meta.Title = "T2"
    /\ calls[3].file = "a.mp3" /\ calls[3].meta.Title = "T2"

\* C10 as stated: when the tagger fails on the k-th file, the files returned
\* with the error are the k-1 files tagged before it.
FailureReturnsTaggedFiles ==
    (pc = "done" /\ Len(calls) >= 2 /\ ~calls[Len(calls)].ok)
        => ret.files = SubSeq(newFiles, 1, Len(TaggerInputs) - 1)

\* C10, amended: when the tagger fails on the k-th file, that invocation is the
\* last one, the error is returned together with the whole sorted diff, and the
\* k-1 files tagged before it hold their tagged content.
FailureReturnsWholeDiff ==
    (pc = "done" /\ Len(calls) >= 2 /\ ~calls[Len(calls)].ok)
        => LET k == Len(TaggerInputs)
           IN  /\ ret.err # ""
               /\ SeqElems(ret.files) = NewSet
               /\ Len(ret.files) = Cardinality(NewSet)
               /\ \A j \in 1..k : TaggerInputs[j] = ret.files[j]
               /\ \A j \in 1..(k - 1) : fs[ret.files[j]] = "tagged"
               /\ fs[ret.files[k]] = "audio"

FailureWitness ==
    /\ pc = "done"
    /\ Len(calls) = 3 /\ calls[2].ok /\ ~calls[3].ok
    /\ Len(ret.files) = 3
    /\ fs[ret.files[1]] = "tagged" /\ fs[ret.files[3]] = "audio"

\* What prepareCover returned in this run.
Prepared == prepareCover(coverSrc, coverOutcome)

\* prepareCover has run and returned an error.
CoverFailed == coverOutcome # "" /\ Prepared.err # ""

\* The cover inputs of the tagger invocations of this run.
TaggerCovers ==
    {calls[i].cover : i \in {j \in 1..Len(calls) : calls[j].name = "ffmpeg"}}

\* C11: once Download has returned, no temporary cover file is left on disk,
\* whether all files were tagged, the tagger failed part-way, or writing the
\* downloaded cover into the temporary file failed.
TempCoverRemovedOnExit ==
    pc = "done" => tempCovers = 0

\* C12: when cover resolution fails, Download goes on: an error it returns
\* afterwards is the tagger's, a run with something to embed tags every new
\* file, and every tagger invocation is made without a cover input.
CoverFailureIsNotFatal ==
    CoverFailed =>
        /\ pc \in {"tag", "done"}
        /\ coverPath = ""
        /\ TaggerCovers \subseteq {""}
        /\ (pc = "done" /\ ret.err # "")
              => /\ Len(calls) >= 2
                 /\ ret.err \in {"ffmpeg failed", "rename failed"}
        /\ (pc = "done" /\ ret.err = "")
              => /\ ret.files = newFiles
                 /\ (SomethingToEmbed => SeqElems(TaggerInputs) = NewSet)

CoverFailureWitness ==
    /\ pc = "done" /\ ret.err = ""
    /\ coverOutcome = "badStatus" /\ coverSrc = "http://h/c.jpg"
    /\ Len(calls) = 3 /\ TaggerCovers = {""}

CoverFromPlaylistFirst ==
    coverOutcome # "" =>
        LET pm == cfg.PlaylistMetadata
            supplied == pm.present /\ pm.AlbumInfo.CoverURL # ""
        IN  /\ supplied => coverSrc = pm.AlbumInfo.CoverURL
            /\ ~supplied => coverSrc = cfg.Cover
            /\ (coverSrc = cfg.Cover /\ cfg.Cover # "") => ~supplied

CoverFromPlaylistWitness ==
    /\ pc = "done" /\ ret.err = ""
    /\ cfg.Cover = "c.jpg"
    /\ cfg.PlaylistMetadata.present
    /\ coverSrc = "http://m/f.jpg"
    /\ coverOutcome = "downloaded"
    /\ TaggerCovers = {"/tmp/iturtle-cover"}

\* The track-number string for position p of an album of total tracks.
TrackString(p, total) ==
    IF total > 0 THEN Numeral(p) \o "/" \o Numeral(total)
    ELSE IF p > 0 THEN Numeral(p)
    ELSE ""

\* The position recovered from a filename when positive, else the 1-based
\* index of the n-th invocation's file in the sorted diff.
RecoveredPosition(n) ==
    IF extractPlaylistIndex(calls[n].file) > 0 THEN extractPlaylistIndex(calls[n].file)
    ELSE n - 1

\* C17 as stated: the position formatted into the track number of a file
\* tagged with playlist metadata is the position parsed from its name when
\* positive, else its 1-based index in the sorted diff.
TrackPositionFromFilename ==
    \A n \in 2..Len(calls) :
        cfg.PlaylistMetadata.present =>
            calls[n].meta.Track =
                TrackString(RecoveredPosition(n), cfg.PlaylistMetadata.AlbumInfo.TotalTracks)

\* C17, amended: the position formatted into the track number of a file tagged
\* with playlist metadata is the selected track record's own position when that
\* is positive; only when the record has none is it the position parsed from
\* the file's name when positive, else the file's 1-based index in the sorted
\* diff.
TrackPositionOwnFirst ==
    \A n \in 2..Len(calls) :
        cfg.PlaylistMetadata.present =>
            LET own == calls[n].track.Position
                p == IF own > 0 THEN own ELSE RecoveredPosition(n)
            IN  calls[n].meta.Track =
                    TrackString(p, cfg.PlaylistMetadata.AlbumInfo.TotalTracks)

TrackPositionWitness ==
    /\ Len(calls) = 3
    /\ cfg.PlaylistMetadata.present /\ cfg.PlaylistMetadata.Tracks = <<>>
    /\ calls[2].file = "2 - b.mp3" /\ calls[2].meta.Track = "2"
    /\ calls[3].file = "a.mp3" /\ calls[3].meta.Track = "2"

\* A file whose name gives position 2, tagged from a one-track playlist.
TrackPositionOverridden ==
    /\ Len(calls) = 2
    /\ Len(cfg.PlaylistMetadata.Tracks) = 1
    /\ calls[2].file = "2 - b.mp3" /\ calls[2].meta.Track = "1/1"

(***************************************************************************)
(* Properties of the tagger's command line and of the client               *)
(***************************************************************************)
\* Argument a immediately followed by argument b somewhere in q.
HasPair(q, a, b) == \E k \in 1..(Len(q) - 1) : q[k] = a /\ q[k + 1] = b

Count(q, x) == Cardinality({k \in 1..Len(q) : q[k] = x})

\* C19: with an empty or blank cover path buildFFmpegArgs gives a single
\* input, a single mapping (the audio stream, copied) and no attached picture;
\* with any other cover path the cover is the second input, is mapped and gets
\* the disposition attached_pic; the output path is the last argument in both
\* cases.
BuildArgsCoverInput ==
    called =>
        LET hasCover == \E i \in 1..Len(arg.coverPath) : Char(arg.coverPath, i) # " "
        IN  /\ out[Len(out)] = arg.output
            /\ SubSeq(out, 1, 3) = <<"-y", "-i", arg.input>>
            /\ HasPair(out, "-map", "0:a")
            /\ hasCover =>
                  /\ Count(out, "-i") = 2
                  /\ SubSeq(out, 4, 5) = <<"-i", arg.coverPath>>
                  /\ HasPair(out, "-map", "1")
                  /\ HasPair(out, "-disposition:v:0", "attached_pic")
            /\ ~hasCover =>
                  /\ Count(out, "-i") = 1
                  /\ Count(out, "-map") = 1
                  /\ Count(out, "attached_pic") = 0
                  /\ Count(out, "-disposition:v:0") = 0
                  /\ HasPair(out, "-c", "copy")

BuildArgsWitness ==
    /\ called
    /\ arg.coverPath = " "
    /\ arg.meta.Title = " v"
    /\ Count(out, "-i") = 1
    /\ HasPair(out, "-metadata", "title=v")
    /\ out[Len(out)] = "in.mp3.tagged"

\* The decimal text of an HTTP status.
StatusText(st) ==
    CASE st = 200 -> "200" [] st = 204 -> "204" [] st = 301 -> "301"
      [] st = 399 -> "399" [] st = 400 -> "400" [] st = 403 -> "403"
      [] st = 404 -> "404" [] st = 500 -> "500" [] st = 503 -> "503"

\* C20: for a request that got an HTTP response, status 404 gives the error
\* ErrNotFound and no body, any other status from 400 on gives an API error
\* that is not ErrNotFound and carries the status code and the body, and a
\* status below 400 gives the response body and no error.
RequestStatusMapping ==
    (called /\ arg.response.kind = "response") =>
        LET st == arg.response.status
        IN  /\ st = 404 => out = [body |-> "", err |-> "not found"]
            /\ (st >= 400 /\ st # 404) =>
                  /\ out.body = ""
                  /\ out.err # "not found"
                  /\ out.err = "API error: status " \o StatusText(st) \o ": "
                                   \o arg.response.body
            /\ st < 400 => out = [body |-> arg.response.body, err |-> ""]

RequestStatusWitness ==
    /\ called
    /\ Len(issued) = 2
    /\ arg.response = [kind |-> "response", status |-> 404, body |-> "b"]
    /\ out.err = "not found"

(***************************************************************************)
(* Properties of main and runBatchMode                                     *)
(***************************************************************************)
\* The configuration file was loaded: runBatchMode is past line 137.
Loaded == request.mode = "batch" /\ stage \in {"album", "download"}

BatchDone == request.mode = "batch" /\ stage = "exit" /\ handed # <<>>

RECURSIVE FailedAmong(_)
\* The identifiers (album name, else URL) of the failed Downloads among the
\* first k entries of the log, in order.
FailedAmong(k) ==
    IF k = 0 THEN <<>>
    ELSE LET ac == request.albums[k]
             id == IF ac.Album # "" THEN ac.Album ELSE ac.URL
         IN  IF handed[k].err # "" THEN Append(FailedAmong(k - 1), id)
             ELSE FailedAmong(k - 1)

\* C15: the k-th Download of a batch is for the k-th album of the file, a new
\* one starts only when the one before has returned, the failed list holds the
\* identifiers of exactly the albums whose Download failed so far, in order,
\* and once the batch has returned every album was attempted exactly once and
\* the batch returned an error exactly when some album failed.
BatchIsolatesFailures ==
    (Loaded \/ BatchDone) =>
        /\ Len(handed) = albumIdx + (IF stage = "download" THEN 1 ELSE 0)
        /\ Len(handed) <= Len(request.albums)
        /\ \A k \in 1..Len(handed) :
              /\ handed[k].album = k
              /\ handed[k].cfg.URL = request.albums[k].URL
              /\ (handed[k].err = "running") => (k = Len(handed) /\ stage = "download")
        /\ failed = FailedAmong(albumIdx)
        /\ BatchDone =>
              /\ Len(handed) = Len(request.albums)
              /\ albumIdx = Len(request.albums)
              /\ (exitErr # "") <=> (\E k \in 1..Len(handed) : handed[k].err # "")
              /\ (exitErr = "") <=> (failed = <<>>)

BatchWitness ==
    /\ BatchDone
    /\ Len(request.albums) = 2
    /\ handed[1].err = "yt-dlp failed" /\ handed[2].err = ""
    /\ failed = <<"Al">>
    /\ exitErr = "1 album(s) failed"

\* The Config built from the manually supplied metadata alone for the k-th
\* Download: the flags in single mode, the album entry in batch mode.
ManualConfig(k) ==
    IF request.mode = "single" THEN request.cli
    ELSE [ToDownloaderConfig(request.albums[k]) EXCEPT !.AudioFormat = "mp3"]

\* C16: when the metadata-database lookup of a request fails, Download is
\* called with the Config built from the manually supplied metadata alone, and
\* the request or album counts as failed only when that Download returned an
\* error.
LookupFailureFallsBack ==
    \A k \in 1..Len(handed) :
        handed[k].lookup = "failed" =>
            /\ handed[k].cfg = ManualConfig(k)
            /\ (k = Len(handed) /\ stage = "download" /\ pc # "idle") => cfg = ManualConfig(k)
            /\ (request.mode = "batch" /\ k <= albumIdx) =>
                  Len(FailedAmong(k)) = Len(FailedAmong(k - 1))
                      + (IF handed[k].err # "" THEN 1 ELSE 0)
            /\ (request.mode = "batch" /\ stage = "exit" /\ exitErr # "") =>
                  \E j \in 1..Len(handed) : handed[j].err # ""
            /\ (request.mode = "single" /\ stage = "exit") => exitErr = handed[k].err

LookupFailureWitness ==
    /\ BatchDone
    /\ Len(handed) = 2
    /\ handed[2].lookup = "failed" /\ handed[2].err = ""
    /\ handed[2].cfg.PlaylistMetadata.Tracks # <<>>
    /\ failed = <<>> /\ exitErr = ""
    /\ Len(calls) = 2 /\ calls[2].ok

\* C18: while the Download of an album of a batch runs on the album's own
\* metadata, the override entry with num = p is applied to the file whose
\* playlist position is p and to no other file.
OverrideAppliedByNum ==
    (request.mode = "batch" /\ stage = "download" /\ pc # "idle"
        /\ handed[Len(handed)].lookup # "found") =>
        LET tracks == request.albums[Len(handed)].Tracks
        IN  \A n \in 2..Len(calls) : \A e \in 1..Len(tracks) :
                (calls[n].meta.Title = tracks[e].Title)
                    <=> (extractPlaylistIndex(calls[n].file) = tracks[e].Num)

(***************************************************************************)
(* Properties of the client's rate limit                                   *)
(***************************************************************************)
\* The requests made through the same client before the j-th request.
EarlierSameClient(j) == {i \in 1..(j - 1) : issued[i].client = issued[j].client}

\* C21: two requests made through one client are issued at least
\* rateLimitDelay (one second) apart, the later one having slept at least the
\* remaining delta and not at all when none remained; the first request of a
\* client is not delayed; whether and how long a request sleeps depends on the
\* client's own previous request alone, whatever other clients did.
RequestsSpacedPerClient ==
    \A j \in 1..Len(issued) :
        LET mine == EarlierSameClient(j)
            remaining == IF mine = {} THEN 0
                         ELSE rateLimitDelay - (issued[j].entered - issued[MaxOf(mine)].at)
        IN  /\ \A i \in mine : issued[j].at - issued[i].at >= rateLimitDelay
            /\ mine = {} => (issued[j].slept = 0 /\ issued[j].at = issued[j].entered)
            /\ remaining <= 0 => issued[j].slept = 0
            /\ remaining > 0 => issued[j].slept >= remaining
            /\ issued[j].at = issued[j].entered + issued[j].slept
            /\ lastRequest[issued[j].client] >= issued[j].at

RequestsSpacedWitness ==
    /\ Len(issued) = 3
    /\ issued[1].client = "c1" /\ issued[1].at = 1 /\ issued[1].slept = 0
    /\ issued[2].client = "c2" /\ issued[2].at = 2 /\ issued[2].slept = 0
    /\ issued[3].client = "c1" /\ issued[3].entered = 2 /\ issued[3].slept = 1
    /\ issued[3].at = 3

(***************************************************************************)
(* Properties of the configuration file                                    *)
(***************************************************************************)
\* The file of a batch run has no albums or an album without url.
InvalidFile ==
    /\ request.mode = "batch"
    /\ request.file = "ok"
    /\ \/ request.albums = <<>>
       \/ \E i \in 1..Len(request.albums) : request.albums[i].URL = ""

\* C22: when the albums list is empty or some album has an empty url, Parse
\* returns an error, and the batch run returns it without having called
\* Download for any album, the valid ones before the invalid one included: no
\* subprocess runs and the output directory is not created.
InvalidFileDownloadsNothing ==
    InvalidFile =>
        /\ Parse(request.file, request.albums) # ""
        /\ stage \in {"start", "exit"}
        /\ stage = "exit" =>
              exitErr = "load config: " \o Parse(request.file, request.albums)
        /\ handed = <<>>
        /\ pc = "idle"
        /\ calls = <<>>
        /\ ~dirExists
        /\ failed = <<>>

InvalidFileWitness ==
    /\ stage = "exit"
    /\ Len(request.albums) = 2
    /\ request.albums[1].URL = "u1"
    /\ request.albums[2].URL = ""
    /\ exitErr = "load config: album 2: url is required"
    /\ handed = <<>>

(***************************************************************************)
(* C23: snapshotFiles(dir, format) returns exactly the non-directory files *)
(* anywhere under dir whose extension equals the target extension without  *)
(* regard to case, each as a path relative to dir, and returns an error    *)
(* when the directory cannot be walked.                                    *)
(***************************************************************************)
\* The extension of a name, in lower case: from the last dot of the text
\* after the last slash.
LowerExtension(rel) ==
    LET name == AfterLastSlash(rel)
        dots == {i \in 1..Len(name) : Char(name, i) = "."}
    IN  IF dots = {} THEN "" ELSE ToLower(SubSeq(name, MaxOf(dots), Len(name)))

\* The target extension of a format: the format with one leading dot.
TargetExtension(format) ==
    IF Len(format) > 0 /\ Char(format, 1) = "." THEN format ELSE "." \o format

SnapshotIsMatchingFiles ==
    called =>
        /\ arg.walkErr = "" =>
              /\ out.err = ""
              /\ \A e \in SnapshotEntries :
                     e.rel \in out.files <=>
                        /\ e \in arg.tree
                        /\ ~e.isDir
                        /\ LowerExtension(e.rel) = ToLower(TargetExtension(arg.format))
              /\ out.files \subseteq {e.rel : e \in SnapshotEntries}
        /\ arg.walkErr # "" => out.err # ""

SnapshotWitness ==
    /\ called
    /\ arg.walkErr = "" /\ arg.format = "mp3"
    /\ arg.tree = SnapshotEntries
    /\ out.files = {"1 - a.mp3", "b.MP3", "d/3 - s.mp3", "e.mp3/c.Mp3"}

(***************************************************************************)
(* C24: applyMetadata replaces the original file, by renaming the .tagged  *)
(* output over it, only after the tagger invocation for that file has      *)
(* succeeded; when the tagger fails the original file is neither renamed   *)
(* nor removed and keeps the content it had before tagging.                *)
(***************************************************************************)
\* A step that adds a tagger invocation to the calls.
TaggerStep ==
    /\ Len(calls') = Len(calls) + 1
    /\ calls'[Len(calls')].name = "ffmpeg"

OriginalReplacedOnlyOnSuccess ==
    [][TaggerStep =>
          LET c == calls'[Len(calls')]
          IN  /\ fs[c.file] = fetched[c.file]
              /\ fs[c.file] # "none"
              /\ ~c.ok => fs'[c.file] = fs[c.file]
              /\ fs'[c.file] # fs[c.file] => c.ok /\ fs'[c.file] = "tagged"]_vars

OriginalKeptWitness ==
    \E i \in 1..Len(calls) :
        /\ calls[i].name = "ffmpeg" /\ ~calls[i].ok
        /\ fs[calls[i].file] = "audio"
        /\ fs[TmpPath(calls[i].file)] = "partial"
        /\ \E j \in 1..(i - 1) :
               /\ calls[j].name = "ffmpeg" /\ calls[j].ok
               /\ fs[calls[j].file] = "tagged"

(***************************************************************************)
(* C25: extractPlaylistIndex looks only at the first " - " at an offset    *)
(* greater than zero in the base name: it returns the number written by    *)
(* the text before it when that text is a digit string, and 0 when that    *)
(* text is anything else (letters, a sign, blanks around the digits,       *)
(* trailing non-digits), even when a later " - " follows digits.           *)
(***************************************************************************)
\* The text in front of the first " - " that does not start the base name.
TextBeforeSeparator(base) ==
    LET seps == {k \in 2..(Len(base) - 2) : SubSeq(base, k, k + 2) = " - "}
    IN  SubSeq(base, 1, MinOf(seps) - 1)

HasSeparator(base) == \E k \in 2..(Len(base) - 2) : SubSeq(base, k, k + 2) = " - "

IsDigitString(s) == s # "" /\ \A i \in 1..Len(s) : IsDigit(Char(s, i))

ExtractZeroUnlessDigitString ==
    called =>
        LET base == AfterLastSlash(arg.filename)
        IN  HasSeparator(base) =>
               LET text == TextBeforeSeparator(base)
               IN  IF IsDigitString(text) THEN out = DecimalValue(text, 0)
                   ELSE out = 0

(***************************************************************************)
(* C26: appendMetadata emits exactly one "-metadata key=value" pair for    *)
(* each of title, artist, album, album_artist, composer, genre, track and  *)
(* comment whose value is non-empty after trimming, both a year and a date *)
(* pair (same value) when the year is non-empty, and no pair for an empty  *)
(* or blank field; the pairs appear in that fixed key order.               *)
(***************************************************************************)
\* The keys in the order of the pairs, and the field each one carries.
MetadataKeys ==
    <<"title", "artist", "album", "album_artist", "composer", "year", "date",
      "genre", "track", "comment">>

FieldOfKey(meta, key) ==
    CASE key = "title" -> meta.Title
      [] key = "artist" -> meta.Artist
      [] key = "album" -> meta.Album
      [] key = "album_artist" -> meta.AlbumArtist
      [] key = "composer" -> meta.Composer
      [] key \in {"year", "date"} -> meta.Year
      [] key = "genre" -> meta.Genre
      [] key = "track" -> meta.Track
      [] key = "comment" -> meta.Comment

RECURSIVE ExpectedPairs(_, _)
\* The key=value texts expected for the keys from position k on.
ExpectedPairs(meta, k) ==
    IF k > Len(MetadataKeys) THEN <<>>
    ELSE LET key == MetadataKeys[k]
             value == TrimSpace(FieldOfKey(meta, key))
         IN  (IF value = "" THEN <<>> ELSE <<key \o "=" \o value>>)
                 \o ExpectedPairs(meta, k + 1)

RECURSIVE EmittedPairs(_, _)
\* The arguments that follow a "-metadata" option, from position i on.
EmittedPairs(args, i) ==
    IF i >= Len(args) THEN <<>>
    ELSE IF args[i] = "-metadata"
           THEN <<args[i + 1]>> \o EmittedPairs(args, i + 2)
         ELSE EmittedPairs(args, i + 1)

MetadataPairsInKeyOrder ==
    called => EmittedPairs(out, 1) = ExpectedPairs(arg.meta, 1)

MetadataPairsWitness ==
    /\ called
    /\ arg.meta.Title = "" /\ arg.meta.Artist = " " /\ arg.meta.Album = " v"
    /\ arg.meta.Year = " v" /\ arg.meta.Comment = " v" /\ arg.meta.Genre = ""
    /\ arg.meta.AlbumArtist = "" /\ arg.meta.Composer = "" /\ arg.meta.Track = " v"
    /\ EmittedPairs(out, 1) = <<"album=v", "year=v", "date=v", "track=v", "comment=v">>

(***************************************************************************)
(* C27: for every release, ToPlaylistMetadata yields a track list as long  *)
(* as AlbumInfo.TotalTracks, the number of tracks of all media together,   *)
(* whose k-th entry (0-based) has Position k+1, the numbering running on   *)
(* across discs, so that Tracks[p-1] is the record with Position p;        *)
(* DiscNumber and TotalDiscs are set only when the release has more than   *)
(* one medium.                                                             *)
(***************************************************************************)
\* The number of tracks on the media m with m <= upTo.
TracksOnMedia(release, upTo) ==
    Cardinality({<<m, j>> \in (1..upTo) \X (1..MaxDiscTracks + 1) :
                    m <= Len(release.Media) /\ j <= Len(release.Media[m].Tracks)})

ConvertedPositionsRunOn ==
    (called /\ arg.present) =>
        /\ out.present
        /\ Len(out.Tracks) = out.AlbumInfo.TotalTracks
        /\ out.AlbumInfo.TotalTracks = TracksOnMedia(arg, Len(arg.Media))
        /\ \A p \in 1..Len(out.Tracks) : out.Tracks[p].Position = p
        /\ \A m \in 1..Len(arg.Media) : \A j \in 1..Len(arg.Media[m].Tracks) :
              LET t == out.Tracks[TracksOnMedia(arg, m - 1) + j]
              IN  IF Len(arg.Media) > 1
                    THEN t.DiscNumber = m /\ t.TotalDiscs = Len(arg.Media)
                  ELSE t.DiscNumber = 0 /\ t.TotalDiscs = 0

ConvertedWitness ==
    /\ called /\ arg.present
    /\ Len(arg.Media) = 2
    /\ Len(arg.Media[1].Tracks) = 2 /\ Len(arg.Media[2].Tracks) = 1
    /\ Len(out.Tracks) = 3
    /\ out.Tracks[3].Position = 3 /\ out.Tracks[3].DiscNumber = 2
    /\ out.Tracks[3].Artist = "X & Y" /\ out.Tracks[3].Title = "R"

(***************************************************************************)
(* C28: when Config.PlaylistMetadata is non-nil, the tags passed to the    *)
(* tagger for every file are derived only from the playlist metadata (the  *)
(* album info merged with the selected track) and no field of the uniform  *)
(* Config.Metadata reaches any tagger invocation; when PlaylistMetadata is *)
(* nil, every file is tagged with Config.Metadata unchanged.               *)
(***************************************************************************)
\* The non-empty values a tag record carries.
TagValues(meta) == {meta[f] : f \in DOMAIN meta} \ {""}

TagsFromPlaylistOnly ==
    \A i \in 1..Len(calls) :
        calls[i].name = "ffmpeg" =>
            IF cfg.PlaylistMetadata.present
              THEN /\ TagValues(calls[i].meta) \cap TagValues(cfg.Metadata) = {}
                   /\ \E t \in SeqElems(cfg.PlaylistMetadata.Tracks) \cup {EmptyTrack} :
                      \E n \in 1..(Len(newFiles) + MaxTracks) :
                          calls[i].meta =
                              MergeTrackMetadata(cfg.PlaylistMetadata.AlbumInfo, t, n)
            ELSE calls[i].meta = cfg.Metadata

TagsFromPlaylistWitness ==
    /\ cfg.PlaylistMetadata.present
    /\ cfg.Metadata = UniformMetadata
    /\ Len(calls) = 3
    /\ calls[2].name = "ffmpeg" /\ calls[2].meta.Artist = "PArtist"
    /\ calls[3].name = "ffmpeg" /\ calls[3].meta.Artist = "Guest"
    /\ calls[3].meta.Album = "PAlbum" /\ calls[3].meta.Year = "2008"

(***************************************************************************)
(* C29: when no field of Config.Metadata is non-empty, no cover was        *)
(* resolved and Config.PlaylistMetadata is nil, Download invokes the       *)
(* tagger zero times, modifies none of the new files, and still returns    *)
(* the sorted list of new files with no error.                             *)
(***************************************************************************)
\* A finished run that found new files and had nothing to embed.
NothingToEmbed ==
    /\ pc = "done" /\ newFiles # <<>>
    /\ \A f \in DOMAIN cfg.Metadata : cfg.Metadata[f] = ""
    /\ coverPath = ""
    /\ ~cfg.PlaylistMetadata.present

NothingToEmbedSkipsTagger ==
    NothingToEmbed =>
        /\ \A i \in 1..Len(calls) : calls[i].name # "ffmpeg"
        /\ \A path \in NewSet : fs[path] = "audio" /\ fs[path] = fetched[path]
        /\ deleted = {}
        /\ ret.err = ""
        /\ SeqElems(ret.files) = NewSet /\ NewSet # {}
        /\ \A i \in 1..Len(ret.files) : \A j \in 1..Len(ret.files) :
              i < j => StrLess(ret.files[i], ret.files[j])

NothingToEmbedWitness ==
    /\ NothingToEmbed
    /\ cfg.Cover = "http://h/c.jpg" /\ coverOutcome = "badStatus"
    /\ ret = [files |-> <<"1 - a.mp3", "2 - b.mp3">>, err |-> ""]
    /\ Len(calls) = 1

(***************************************************************************)
(* C30: across any sequence of Download runs on the same output directory  *)
(* a file is passed to the tagger only by the run during which it first    *)
(* appeared: a file left untagged by a run that failed or aborted is part  *)
(* of the before snapshot of every later run and is never tagged by any of *)
(* them, and a later run that produces only file names already present     *)
(* ends with the "no new audio files" error.                               *)
(***************************************************************************)
\* A path with the audio extension of the runs.
AudioPath(path) == Len(path) > 4 /\ SubSeq(path, Len(path) - 3, Len(path)) = ".mp3"

\* The audio files that first existed during the current run.
AppearedNow == {pr \in appeared : pr[2] = runNo /\ AudioPath(pr[1])}

TaggedOnlyByFirstRun ==
    /\ \A pr \in taggedIn : pr \in appeared
    /\ \A pr \in appeared : \A r \in (pr[2] + 1)..runNo : <<pr[1], r>> \notin taggedIn
    /\ calls # <<>> =>
          \A pr \in appeared : (pr[2] < runNo /\ AudioPath(pr[1])) => pr[1] \in beforeSnap
    /\ (pc = "done" /\ Len(calls) = 1 /\ calls[1].ok /\ ioFailed = "" /\ AppearedNow = {})
          => ret = [files |-> <<>>, err |-> "no new audio files found after download"]

TaggedOnlyByFirstRunWitness ==
    /\ runNo = 2 /\ pc = "done"
    /\ handed[1].err = "ffmpeg failed"
    /\ appeared = {<<"1 - a.mp3", 1>>}
    /\ taggedIn = {<<"1 - a.mp3", 1>>}
    /\ fs["1 - a.mp3"] = "audio"
    /\ fetched["1 - a.mp3"] = "audio"
    /\ "1 - a.mp3" \in beforeSnap
    /\ calls # <<>> /\ calls[1].ok
    /\ ret.err = "no new audio files found after download"

====
